---------------------------- MODULE Spec2Model ----------------------------
(***************************************************************************)
(* Statement-to-transaction parsers of the scripts repository:             *)
(*   bank_statement_transformer (HDFC bank CSV "format A", ICICI card CSV  *)
(*   "format B", HDFC card PDF "format C") and actual_budget_importer (its *)
(*   own HDFC bank CSV parser), their payee heuristics, and the main()     *)
(*   of each program that dispatches on the source tag.                    *)
(*                                                                         *)
(* Three specifications share the variables: Spec runs one parser step by  *)
(* step, PayeeSpec one call of a payee function, MainSpec one main() over  *)
(* an uploaded statement, up to the ledger of actual_budget_importer.      *)
(*                                                                         *)
(* Text is modelled at character level: a str is a sequence of             *)
(* one-character strings, a statement is a sequence of lines and a line is *)
(* the sequence of its comma-separated tokens (no quoting is modelled, so  *)
(* csv.reader and str.split(",") see the same tokens; the empty line is    *)
(* the line with no tokens).  A float is modelled in fixed point, as a     *)
(* whole number of tenths, which is exact for the amounts of the modelled  *)
(* statements.                                                             *)
(***************************************************************************)
EXTENDS Integers, Sequences, FiniteSets, TLC

(***************************************************************************)
(* Bounds of the model.                                                    *)
(***************************************************************************)
\* number of lines that follow the statement's prefix (blank line, header)
MaxRows == 2

(***************************************************************************)
(* Python str / list primitives.                                           *)
(***************************************************************************)
Min(a, b) == IF a < b THEN a ELSE b

Max(a, b) == IF a > b THEN a ELSE b

\* list[lo:hi] with 0-based lo and exclusive hi, clamped as Python clamps
PySlice(s, lo, hi) ==
    LET a == Max(lo, 0) + 1
        b == Min(hi, Len(s))
    IN  IF a > b THEN <<>> ELSE SubSeq(s, a, b)

\* list[lo:]
PySliceFrom(s, lo) == PySlice(s, lo, Len(s))

IsSpace(c) == c = " "

RECURSIVE LStrip(_)
LStrip(s) ==
    IF s = <<>> THEN <<>>
    ELSE IF IsSpace(Head(s)) THEN LStrip(Tail(s)) ELSE s

RECURSIVE RStrip(_)
RStrip(s) ==
    IF s = <<>> THEN <<>>
    ELSE IF IsSpace(s[Len(s)]) THEN RStrip(SubSeq(s, 1, Len(s) - 1)) ELSE s

\* str.strip()
Strip(s) == RStrip(LStrip(s))

\* [el for el in row if el.strip()]
RECURSIVE FilterBlank(_)
FilterBlank(row) ==
    IF row = <<>> THEN <<>>
    ELSE IF Strip(Head(row)) = <<>> THEN FilterBlank(Tail(row))
         ELSE <<Head(row)>> \o FilterBlank(Tail(row))

\* " ".join(part.strip() for part in parts)
RECURSIVE JoinStripped(_)
JoinStripped(parts) ==
    IF parts = <<>> THEN <<>>
    ELSE IF Len(parts) = 1 THEN Strip(Head(parts))
         ELSE Strip(Head(parts)) \o <<" ">> \o JoinStripped(Tail(parts))

Digits == <<"0", "1", "2", "3", "4", "5", "6", "7", "8", "9">>

IsDigit(c) == \E i \in 1..10 : Digits[i] = c

DigitVal(c) == (CHOOSE i \in 1..10 : Digits[i] = c) - 1

AllDigits(s) == \A i \in 1..Len(s) : IsDigit(s[i])

\* value of a non-empty digit string
RECURSIVE DigitsVal(_)
DigitsVal(s) ==
    IF s = <<>> THEN 0
    ELSE 10 * DigitsVal(SubSeq(s, 1, Len(s) - 1)) + DigitVal(s[Len(s)])

\* decimal digits of a natural number
RECURSIVE NatStr(_)
NatStr(n) ==
    IF n < 10 THEN <<Digits[n + 1]>>
    ELSE NatStr(n \div 10) \o <<Digits[(n % 10) + 1]>>

\* zero-padded to two digits (strftime %m, %d)
Pad2(n) == IF n < 10 THEN <<"0">> \o NatStr(n) ELSE NatStr(n)

\* index of the first occurrence of character c in s, 0 when absent
FirstIndex(s, c) ==
    IF \E i \in 1..Len(s) : s[i] = c
    THEN CHOOSE i \in 1..Len(s) : s[i] = c /\ \A j \in 1..(i - 1) : s[j] # c
    ELSE 0

\* str.split(c)
RECURSIVE Split(_, _)
Split(s, c) ==
    LET i == FirstIndex(s, c)
    IN  IF i = 0 THEN <<s>>
        ELSE <<SubSeq(s, 1, i - 1)>> \o Split(SubSeq(s, i + 1, Len(s)), c)

(***************************************************************************)
(* float(text) and str(float).  A finite float is a whole number of tenths:*)
(* the modelled statements carry no digit other than 0 beyond the first    *)
(* fractional one.  The three values that are not finite are encoded as    *)
(* whole numbers beyond every finite amount: PosInf, -PosInf and NaN.      *)
(* float() accepts here, between optional blanks, an optional sign         *)
(* followed by a decimal (digits, with an optional point) or by one of     *)
(* nan, inf, infinity in any letter case; any other text raises ValueError *)
(* (the exponent and underscore notations are not modelled).               *)
(***************************************************************************)
\* float("inf")
PosInf == 2000000000

\* float("nan")
NaN == PosInf + 1

\* math.isfinite(x)
IsFinite(x) == -PosInf < x /\ x < PosInf

\* the negation left out
FloatNegForgotten(x) == x

\* -x
FloatNeg(x) == IF x = NaN THEN NaN ELSE -x

\* a - b
FloatSub(a, b) ==
    IF a = NaN \/ b = NaN THEN NaN
    ELSE IF ~IsFinite(a) THEN (IF a = b THEN NaN ELSE a)
    ELSE IF ~IsFinite(b) THEN -b
    ELSE a - b

\* str.lower, for the ASCII letters
AsciiUppercase ==
    <<"A","B","C","D","E","F","G","H","I","J","K","L","M",
      "N","O","P","Q","R","S","T","U","V","W","X","Y","Z">>

AsciiLowercase ==
    <<"a","b","c","d","e","f","g","h","i","j","k","l","m",
      "n","o","p","q","r","s","t","u","v","w","x","y","z">>

LowerChar(c) ==
    IF \E i \in 1..Len(AsciiUppercase) : AsciiUppercase[i] = c
    THEN AsciiLowercase[CHOOSE i \in 1..Len(AsciiUppercase) : AsciiUppercase[i] = c]
    ELSE c

Lower(s) == [i \in 1..Len(s) |-> LowerChar(s[i])]

\* the text without its blanks and its sign
Unsigned(text) ==
    LET t == Strip(text)
    IN  IF t # <<>> /\ t[1] \in {"+", "-"} THEN Tail(t) ELSE t

IsNegative(text) == LET t == Strip(text) IN t # <<>> /\ t[1] = "-"

IsNanText(u) == Lower(u) = <<"n","a","n">>

IsInfText(u) ==
    Lower(u) \in {<<"i","n","f">>, <<"i","n","f","i","n","i","t","y">>}

IsDecimalText(u) ==
    LET p == Split(u, ".")
    IN  \/ Len(p) = 1 /\ p[1] # <<>> /\ AllDigits(p[1])
        \/ Len(p) = 2 /\ AllDigits(p[1]) /\ AllDigits(p[2])
                      /\ (p[1] # <<>> \/ p[2] # <<>>)

FloatOk(text) ==
    LET u == Unsigned(text)
    IN  IsNanText(u) \/ IsInfText(u) \/ IsDecimalText(u)

FloatOf(text) ==
    LET u == Unsigned(text)
        p == Split(u, ".")
        magnitude ==
            IF IsNanText(u) THEN NaN
            ELSE IF IsInfText(u) THEN PosInf
            ELSE 10 * DigitsVal(p[1])
                   + (IF Len(p) = 2 /\ p[2] # <<>> THEN DigitVal(p[2][1]) ELSE 0)
    IN  IF IsNegative(text) THEN FloatNeg(magnitude) ELSE magnitude

\* f"{amount}" : repr of a float, e.g. 15296.0, -250.0, 51807.2, nan, inf
FloatStr(x) ==
    LET a == IF x < 0 THEN -x ELSE x
    IN  IF x = NaN THEN <<"n","a","n">>
        ELSE (IF x < 0 THEN <<"-">> ELSE <<>>)
               \o (IF a = PosInf THEN <<"i","n","f">>
                   ELSE NatStr(a \div 10) \o <<".">> \o NatStr(a % 10))

(***************************************************************************)
(* datetime.strptime(text, "%d/%m/%y").date() and date.isoformat().        *)
(***************************************************************************)
IsLeap(y) == (y % 4 = 0 /\ y % 100 # 0) \/ y % 400 = 0

DaysInMonth(y, m) ==
    IF m = 2 THEN (IF IsLeap(y) THEN 29 ELSE 28)
    ELSE IF m \in {4, 6, 9, 11} THEN 30 ELSE 31

\* %y : 00..68 are 2000..2068, 69..99 are 1969..1999
TwoDigitYear(yy) == IF yy <= 68 THEN 2000 + yy ELSE 1900 + yy

StrpDate(text) ==
    LET p == Split(text, "/")
    IN  [y |-> TwoDigitYear(DigitsVal(p[3])),
         m |-> DigitsVal(p[2]),
         d |-> DigitsVal(p[1])]

StrpDateOk(text) ==
    LET p == Split(text, "/")
    IN  /\ Len(p) = 3
        /\ Len(p[1]) \in {1, 2} /\ AllDigits(p[1])
        /\ Len(p[2]) \in {1, 2} /\ AllDigits(p[2])
        /\ Len(p[3]) = 2 /\ AllDigits(p[3])
        /\ StrpDate(text).m \in 1..12
        /\ StrpDate(text).d \in 1..DaysInMonth(StrpDate(text).y, StrpDate(text).m)

IsoFormat(date) ==
    NatStr(date.y) \o <<"-">> \o Pad2(date.m) \o <<"-">> \o Pad2(date.d)

(***************************************************************************)
(* Reference ids.  A str that is a SHA-256 hex digest is kept symbolic: the*)
(* digest of a text is the pair of the tag "sha256" and that text (equal   *)
(* texts give equal digests, different texts different ones), and its      *)
(* length is that of a hex digest.                                         *)
(***************************************************************************)
\* len(hashlib.sha256(...).hexdigest())
HexDigestLen == 64

\* a str taken from the source
Text(s) == [kind |-> "text", text |-> s]

\* hashlib.sha256(hash_input.encode()).hexdigest()
Sha256HexDigest(hash_input) == [kind |-> "sha256", text |-> hash_input]

\* len(cleaned_ref_id)
StrLen(s) == IF s.kind = "sha256" THEN HexDigestLen ELSE Len(s.text)

(***************************************************************************)
(* Transaction (dataclass) and the outcome of one pass of a row loop.      *)
(***************************************************************************)
Transaction(amount, narration, ref_id, date, closing_balance) ==
    [amount |-> amount, narration |-> narration, ref_id |-> ref_id,
     date |-> date, closing_balance |-> closing_balance]

NoTransaction ==
    Transaction(0, <<>>, Text(<<>>), [y |-> 0, m |-> 0, d |-> 0], 0)

\* the row is skipped with logging.warning
Warned == [kind |-> "warning", exc |-> "none", txn |-> NoTransaction]

\* the row is skipped silently
Skipped == [kind |-> "skip", exc |-> "none", txn |-> NoTransaction]

\* the row raises: the exception leaves the parser
Raised(e) == [kind |-> "raise", exc |-> e, txn |-> NoTransaction]

\* transactions.append(Transaction(...))
Appended(t) == [kind |-> "append", exc |-> "none", txn |-> t]

(***************************************************************************)
(* Format A: transform_hdfc_csv_to_transactions, one pass of the row loop. *)
(* bank_statement_transformer holds the function twice (main.py and        *)
(* transformers/hdfc_bank_statement_csv.py, the same text); the            *)
(* actual_budget_importer's differs in how the header is found and in the  *)
(* reference-id synthesis.                                                 *)
(***************************************************************************)
\* num_cols = len([col for col in first_line.split(",") if col.strip()])
NumCols(first_line) == Len(FilterBlank(first_line))

\* the merge with the narration slice one token short: row[1 : 1 + extra_cols]
MergeNarrationSliceShort(row, num_cols) ==
    IF Len(row) > num_cols
    THEN LET extra_cols == Len(row) - num_cols
             narration_parts == PySlice(row, 1, 1 + extra_cols)
             merged_narration == JoinStripped(narration_parts)
         IN  <<row[1], merged_narration>> \o PySliceFrom(row, 1 + extra_cols)
    ELSE row

\* the "narration contains a comma" branch
MergeNarration(row, num_cols) ==
    IF Len(row) > num_cols
    THEN LET extra_cols == Len(row) - num_cols
             narration_parts == PySlice(row, 1, 2 + extra_cols)
             merged_narration == JoinStripped(narration_parts)
         IN  <<row[1], merged_narration>> \o PySliceFrom(row, 2 + extra_cols)
    ELSE row

\* the row-width test before the 7-name unpacking
RowTooShort(row) == Len(row) < 7

\* date_str, narration, _, debit_amt, credit_amt, ref_id, closing_balance = row
UnpackOk(row) == Len(row) = 7

\* float(credit_amt.strip() or "0") - float(debit_amt.strip() or "0")
OrZero(text) == IF Strip(text) = <<>> THEN <<"0">> ELSE Strip(text)

AmountOk(debit_amt, credit_amt) ==
    FloatOk(OrZero(credit_amt)) /\ FloatOk(OrZero(debit_amt))

Amount(debit_amt, credit_amt) ==
    FloatSub(FloatOf(OrZero(credit_amt)), FloatOf(OrZero(debit_amt)))

\* the test without its all-zeros half
BstIsZeroRefSingleZeroOnly(cleaned_ref_id) == cleaned_ref_id = <<"0">>

\* bank_statement_transformer: cleaned_ref_id == "0" or all zeros
BstIsZeroRef(cleaned_ref_id) ==
    \/ cleaned_ref_id = <<"0">>
    \/ \A i \in 1..Len(cleaned_ref_id) : cleaned_ref_id[i] = "0"

\* actual_budget_importer: cleaned_ref_id == '0'
AbiIsZeroRef(cleaned_ref_id) == cleaned_ref_id = <<"0">>

\* the hash input without the amount
BstHashInputWithoutAmount(date_only, amount, narration) ==
    IsoFormat(date_only) \o <<":">> \o Strip(narration)

\* f"{date_only.isoformat()}:{amount}:{narration.strip()}"
BstHashInput(date_only, amount, narration) ==
    IsoFormat(date_only) \o <<":">> \o FloatStr(amount) \o <<":">> \o Strip(narration)

\* f"{date_only.isoformat()}:{narration.strip()}"
AbiHashInput(date_only, amount, narration) ==
    IsoFormat(date_only) \o <<":">> \o Strip(narration)

IsZeroRef(impl, cleaned_ref_id) ==
    IF impl = "abi" THEN AbiIsZeroRef(cleaned_ref_id) ELSE BstIsZeroRef(cleaned_ref_id)

HashInput(impl, date_only, amount, narration) ==
    IF impl = "abi" THEN AbiHashInput(date_only, amount, narration)
    ELSE BstHashInput(date_only, amount, narration)

\* cleaned_ref_id after the synthesis branch
CleanedRefId(impl, ref_id, date_only, amount, narration) ==
    IF IsZeroRef(impl, Strip(ref_id))
    THEN Sha256HexDigest(HashInput(impl, date_only, amount, narration))
    ELSE Text(Strip(ref_id))

\* the assertion weakened to a non-empty id
RefIdAssertionNonEmpty(cleaned_ref_id) == StrLen(cleaned_ref_id) > 0

\* assert len(cleaned_ref_id) > 3
RefIdAssertion(cleaned_ref_id) == StrLen(cleaned_ref_id) > 3

\* the loop body from the unpacking on, for a row of 7 fields
HdfcFields(impl, row) ==
    LET date_str == row[1]
        narration == row[2]
        debit_amt == row[4]
        credit_amt == row[5]
        ref_id == row[6]
        closing_balance == row[7]
    IN  IF ~StrpDateOk(Strip(date_str)) THEN Raised("ValueError")
        ELSE IF ~AmountOk(debit_amt, credit_amt) THEN Raised("ValueError")
        ELSE LET date_only == StrpDate(Strip(date_str))
                 amount == Amount(debit_amt, credit_amt)
                 cleaned_ref_id ==
                     CleanedRefId(impl, ref_id, date_only, amount, narration)
             IN  IF ~RefIdAssertion(cleaned_ref_id) THEN Raised("AssertionError")
                 ELSE IF ~FloatOk(Strip(closing_balance)) THEN Raised("ValueError")
                 ELSE Appended(Transaction(amount, Strip(narration),
                                           cleaned_ref_id, date_only,
                                           FloatOf(Strip(closing_balance))))

\* one pass of "for row_num, row in enumerate(reader, start=2)"
HdfcRow(impl, num_cols, csv_row) ==
    LET filtered == FilterBlank(csv_row)
        row == MergeNarration(filtered, num_cols)
    IN  IF filtered = <<>> THEN Warned
        ELSE IF RowTooShort(row) THEN Warned
        ELSE IF ~UnpackOk(row) THEN Raised("ValueError")
        ELSE HdfcFields(impl, row)

(***************************************************************************)
(* Format B: transform_icici_credit_card_statement_csv_to_transactions     *)
(* (bank_statement_transformer holds it twice, the same text).             *)
(***************************************************************************)
\* s starts with the characters of sub
StartsWith(s, sub) == Len(s) >= Len(sub) /\ SubSeq(s, 1, Len(sub)) = sub

\* sub in s
RECURSIVE Contains(_, _)
Contains(s, sub) ==
    IF Len(s) < Len(sub) THEN FALSE
    ELSE StartsWith(s, sub) \/ Contains(Tail(s), sub)

\* s.replace(sub, "")
RECURSIVE Remove(_, _)
Remove(s, sub) ==
    IF Len(s) < Len(sub) \/ sub = <<>> THEN s
    ELSE IF StartsWith(s, sub) THEN Remove(SubSeq(s, Len(sub) + 1, Len(s)), sub)
         ELSE <<Head(s)>> \o Remove(Tail(s), sub)

TransactionDetails ==
    <<"T","r","a","n","s","a","c","t","i","o","n"," ","D","e","t","a","i","l","s">>

DrMarker == <<"D","r",".">>

\* datetime.strptime(text, "%d%m%Y").date(), for a text of 8 digits
StrpCompactDate(text) ==
    [y |-> DigitsVal(SubSeq(text, 5, 8)),
     m |-> DigitsVal(SubSeq(text, 3, 4)),
     d |-> DigitsVal(SubSeq(text, 1, 2))]

StrpCompactDateOk(text) ==
    /\ Len(text) = 8
    /\ AllDigits(text)
    /\ StrpCompactDate(text).y >= 1
    /\ StrpCompactDate(text).m \in 1..12
    /\ StrpCompactDate(text).d \in
           1..DaysInMonth(StrpCompactDate(text).y, StrpCompactDate(text).m)

\* the test of the first loop: row and row[1].strip() == "Transaction Details"
\* (row[1] of a row of one field raises IndexError)
IciciScanRaises(row) == Len(row) = 1

\* the test without the strip: row[1] == "Transaction Details"
IciciIsMarkerUntrimmed(row) == row # <<>> /\ row[2] = TransactionDetails

IciciIsMarker(row) == row # <<>> /\ Strip(row[2]) = TransactionDetails

\* if not row or len(row) < 9 or not row[2]: continue
IciciSkipsRow(row) == row = <<>> \/ Len(row) < 9 \/ row[3] = <<>>

\* amount_str.replace(" Dr.", "").replace(" Cr.", "").replace(",", "")
IciciCleanAmount(amount_str) ==
    Remove(Remove(Remove(amount_str, <<" ">> \o DrMarker),
                  <<" ","C","r",".">>), <<",">>)

\* one pass of the second loop
IciciRow(row) ==
    IF IciciSkipsRow(row) THEN Skipped
    ELSE LET date_str == Remove(Strip(row[3]), <<",">>)
             description == Strip(row[4])
             amount_str == Strip(row[7])
             ref_num == Strip(row[9])
         IN  IF ~StrpCompactDateOk(date_str) THEN Raised("ValueError")
             ELSE IF amount_str = <<>> THEN Skipped
             ELSE IF ~FloatOk(IciciCleanAmount(amount_str)) THEN Raised("ValueError")
             ELSE LET magnitude == FloatOf(IciciCleanAmount(amount_str))
                      amount == IF Contains(row[7], DrMarker)
                                THEN FloatNeg(magnitude) ELSE magnitude
                  IN  Appended(Transaction(amount, description, Text(ref_num),
                                           StrpCompactDate(date_str), 0))

(***************************************************************************)
(* Format C: transform_hdfc_credit_card_statement_to_transactions          *)
(* (bank_statement_transformer/main.py).  camelot.read_pdf is outside the  *)
(* repository: what its two flavors return for the document is the input.  *)
(* A table is the list of the rows of its DataFrame, a row the list of its *)
(* cells (str); all rows of a table have the table's number of columns.    *)
(***************************************************************************)
DomesticTransactions ==
    <<"D","o","m","e","s","t","i","c"," ",
      "T","r","a","n","s","a","c","t","i","o","n","s">>

CrMarker == <<"C","r">>

\* rows dropped at the head of a qualifying table: table.df.iloc[4:]
HeaderRowsSkipped == 4

\* the cell pandas puts where a table has no such column (float nan)
NaNCell == <<"NaN">>

\* ' '.join(str(cell) for cell in table.df.iloc[0])
RECURSIVE JoinCells(_)
JoinCells(cells) ==
    IF cells = <<>> THEN <<>>
    ELSE IF Len(cells) = 1 THEN cells[1]
    ELSE cells[1] \o <<" ">> \o JoinCells(Tail(cells))

\* the test without the look at the first row
IsDomesticTableAnyTitle(df) == Len(df) > 1 /\ Len(df) > HeaderRowsSkipped

\* the test of both filter loops
IsDomesticTable(df) ==
    /\ Len(df) > 1
    /\ Contains(JoinCells(df[1]), DomesticTransactions)
    /\ Len(df) > HeaderRowsSkipped

\* the frames one flavor adds to domestic_transaction_dfs
RECURSIVE DomesticFrames(_)
DomesticFrames(tables) ==
    IF tables = <<>> THEN <<>>
    ELSE (IF IsDomesticTable(Head(tables))
          THEN <<PySliceFrom(Head(tables), HeaderRowsSkipped)>> ELSE <<>>)
           \o DomesticFrames(Tail(tables))

\* number of columns of pd.concat(dfs): the union of the column labels
RECURSIVE ConcatWidth(_)
ConcatWidth(dfs) ==
    IF dfs = <<>> THEN 0
    ELSE Max(Len(Head(dfs)[1]), ConcatWidth(Tail(dfs)))

\* a row of a frame as a row of the concatenation
PadRow(r, width) == r \o [i \in 1..(width - Len(r)) |-> NaNCell]

RECURSIVE ConcatRows(_, _)
ConcatRows(dfs, width) ==
    IF dfs = <<>> THEN <<>>
    ELSE [i \in 1..Len(Head(dfs)) |-> PadRow(Head(dfs)[i], width)]
           \o ConcatRows(Tail(dfs), width)

\* pd.concat(domestic_transaction_dfs, ignore_index=True)
Concat(dfs) == ConcatRows(dfs, ConcatWidth(dfs))

\* df.drop_duplicates(): the first of equal rows is kept
RECURSIVE DropDuplicates(_)
DropDuplicates(rows) ==
    IF rows = <<>> THEN <<>>
    ELSE LET init == DropDuplicates(SubSeq(rows, 1, Len(rows) - 1))
             last == rows[Len(rows)]
         IN  IF \E i \in 1..Len(init) : init[i] = last THEN init
             ELSE Append(init, last)

\* datetime.strptime(text, "%d/%m/%Y").date()
StrpSlashDate(text) ==
    LET p == Split(text, "/")
    IN  [y |-> DigitsVal(p[3]), m |-> DigitsVal(p[2]), d |-> DigitsVal(p[1])]

StrpSlashDateOk(text) ==
    LET p == Split(text, "/")
    IN  /\ Len(p) = 3
        /\ Len(p[1]) \in {1, 2} /\ AllDigits(p[1])
        /\ Len(p[2]) \in {1, 2} /\ AllDigits(p[2])
        /\ Len(p[3]) = 4 /\ AllDigits(p[3])
        /\ StrpSlashDate(text).y >= 1
        /\ StrpSlashDate(text).m \in 1..12
        /\ StrpSlashDate(text).d \in
               1..DaysInMonth(StrpSlashDate(text).y, StrpSlashDate(text).m)

\* row[3] if len(row) > 3 else row[2]
CcAmountCell(row) == IF Len(row) > 3 THEN row[4] ELSE row[3]

\* one pass of "for _, row in combined_df.iterrows()"
CcRow(row) ==
    IF Len(row) < 3 THEN Skipped
    ELSE IF row[1] = NaNCell \/ row[2] = NaNCell \/ CcAmountCell(row) = NaNCell
         THEN Raised("AttributeError")
    ELSE LET date_str == Strip(row[1])
             description == Strip(row[2])
             amount_str == Remove(Strip(CcAmountCell(row)), <<",">>)
             date_part == Split(date_str, " ")[1]
             is_credit == Contains(amount_str, CrMarker)
             clean_amount == Strip(Remove(amount_str, CrMarker))
         IN  IF ~StrpSlashDateOk(date_part) THEN Raised("ValueError")
             ELSE IF ~FloatOk(clean_amount) THEN Raised("ValueError")
             ELSE LET date_obj == StrpSlashDate(date_part)
                      magnitude == FloatOf(clean_amount)
                      amount == IF ~is_credit THEN FloatNeg(magnitude)
                                ELSE magnitude
                      hash_input == IsoFormat(date_obj) \o <<":">>
                                      \o FloatStr(amount) \o <<":">> \o description
                  IN  Appended(Transaction(amount, description,
                                           Sha256HexDigest(hash_input),
                                           date_obj, 0))

(***************************************************************************)
(* The lines the modelled format-A statements are made of.                 *)
(***************************************************************************)
\* an empty line
EmptyLine == <<>>

\* the 7-column header row of an HDFC export (tests.py sample_csv):
\*   Date,Narration,Value Dat,Debit Amount,Credit Amount,Chq/Ref Number,Closing Balance
HeaderLine ==
    <<<<"D","a","t","e">>, <<"N","a","r","r","a","t","i","o","n">>,
      <<"V","a","l","u","e"," ","D","a","t">>,
      <<"D","e","b","i","t"," ","A","m","o","u","n","t">>,
      <<"C","r","e","d","i","t"," ","A","m","o","u","n","t">>,
      <<"C","h","q","/","R","e","f"," ","N","u","m","b","e","r">>,
      <<"C","l","o","s","i","n","g"," ","B","a","l","a","n","c","e">>>>

\* a header row of 8 columns (an export with one more column):
\*   Date,Narration,Value Dat,Debit Amount,Credit Amount,Chq/Ref Number,Closing Balance,Branch
Header8Line == HeaderLine \o <<<<"B","r","a","n","c","h">>>>

\* the data row of tests.py sample_csv:
\*   01/10/24,ACH C- NATIONAL HIGHWAYS AU-1320825,01/10/24,0,15296,9053114532,51807.2
SampleRow ==
    <<<<"0","1","/","1","0","/","2","4">>,
      <<"A","C","H"," ","C","-"," ","N","A","T","I","O","N","A","L"," ","H","I","G","H","W","A","Y","S"," ","A","U","-","1","3","2","0","8","2","5">>,
      <<"0","1","/","1","0","/","2","4">>, <<"0">>, <<"1","5","2","9","6">>,
      <<"9","0","5","3","1","1","4","5","3","2">>,
      <<"5","1","8","0","7",".","2">>>>

\* a credit whose reference field is 0:
\*   02/10/24,INT PD,02/10/24,0,12,0,51819.2
ZeroRefRow ==
    <<<<"0","2","/","1","0","/","2","4">>, <<"I","N","T"," ","P","D">>,
      <<"0","2","/","1","0","/","2","4">>, <<"0">>, <<"1","2">>, <<"0">>,
      <<"5","1","8","1","9",".","2">>>>

\* a second credit of the same day, amount and narration as ZeroRefRow (the
\* closing balance has moved on):
\*   02/10/24,INT PD,02/10/24,0,12,0,51831.2
ZeroRefRow2 ==
    <<<<"0","2","/","1","0","/","2","4">>, <<"I","N","T"," ","P","D">>,
      <<"0","2","/","1","0","/","2","4">>, <<"0">>, <<"1","2">>, <<"0">>,
      <<"5","1","8","3","1",".","2">>>>

\* a debit whose reference field is all zeros, with padded fields:
\*   02/10/24,UPI-JO-X, 02/10/24 ,250,0, 0000 ,51569.2
AllZerosRefRow ==
    <<<<"0","2","/","1","0","/","2","4">>,
      <<"U","P","I","-","J","O","-","X">>,
      <<" ","0","2","/","1","0","/","2","4"," ">>, <<"2","5","0">>, <<"0">>,
      <<" ","0","0","0","0"," ">>, <<"5","1","5","6","9",".","2">>>>

\* a row whose narration holds a comma: 8 tokens:
\*   03/10/24,POS A, B ,03/10/24,100,0,1234567,51469.2
CommaRow ==
    <<<<"0","3","/","1","0","/","2","4">>, <<"P","O","S"," ","A">>,
      <<" ","B"," ">>, <<"0","3","/","1","0","/","2","4">>, <<"1","0","0">>,
      <<"0">>, <<"1","2","3","4","5","6","7">>,
      <<"5","1","4","6","9",".","2">>>>

\* a credit whose debit field is blank:
\*   04/10/24,SALARY,04/10/24, ,5000,7654321,56469.2
BlankDebitRow ==
    <<<<"0","4","/","1","0","/","2","4">>, <<"S","A","L","A","R","Y">>,
      <<"0","4","/","1","0","/","2","4">>, <<" ">>, <<"5","0","0","0">>,
      <<"7","6","5","4","3","2","1">>, <<"5","6","4","6","9",".","2">>>>

\* a row of 3 tokens:
\*   05/10/24,BROKEN,05/10/24
ShortRow ==
    <<<<"0","5","/","1","0","/","2","4">>, <<"B","R","O","K","E","N">>,
      <<"0","5","/","1","0","/","2","4">>>>

\* a row whose reference field has 2 characters:
\*   06/10/24,CHQ,06/10/24,10,0,12,56459.2
ShortRefRow ==
    <<<<"0","6","/","1","0","/","2","4">>, <<"C","H","Q">>,
      <<"0","6","/","1","0","/","2","4">>, <<"1","0">>, <<"0">>, <<"1","2">>,
      <<"5","6","4","5","9",".","2">>>>

\* a debit whose date is not a day of the calendar:
\*   31/02/24,RENT,01/03/24,900,0,2345678,55559.2
BadDateRow ==
    <<<<"3","1","/","0","2","/","2","4">>, <<"R","E","N","T">>,
      <<"0","1","/","0","3","/","2","4">>, <<"9","0","0">>, <<"0">>,
      <<"2","3","4","5","6","7","8">>, <<"5","5","5","5","9",".","2">>>>

\* a credit whose amount text is nan:
\*   08/10/24,REFUND,08/10/24,0,nan,3456789,55559.2
NanAmountRow ==
    <<<<"0","8","/","1","0","/","2","4">>, <<"R","E","F","U","N","D">>,
      <<"0","8","/","1","0","/","2","4">>, <<"0">>, <<"n","a","n">>,
      <<"3","4","5","6","7","8","9">>, <<"5","5","5","5","9",".","2">>>>

(***************************************************************************)
(* The rows the modelled format-B statements are made of (a row is the list*)
(* csv.reader yields: a quoted field may hold commas).                     *)
(***************************************************************************)
\* a row of the preamble:
\*   |Statement|OCT
BPreambleRow ==
    <<<<>>, <<"S","t","a","t","e","m","e","n","t">>, <<"O","C","T">>>>

\* the row that opens the transaction section:
\*   | Transaction Details |
BMarkerRow ==
    <<<<>>,
      <<" ","T","r","a","n","s","a","c","t","i","o","n"," ","D","e","t","a","i","l","s"," ">>,
      <<>>>>

\* the column headers that follow the marker row:
\*   Sr|Card|Date|Details|Pts|Cur|Amount|Intl|Ref
BColumnHeaderRow ==
    <<<<"S","r">>, <<"C","a","r","d">>, <<"D","a","t","e">>,
      <<"D","e","t","a","i","l","s">>, <<"P","t","s">>, <<"C","u","r">>,
      <<"A","m","o","u","n","t">>, <<"I","n","t","l">>, <<"R","e","f">>>>

\* a debit; the date and the amount are quoted fields that hold commas:
\*   1|4375|01,10,2024|AMZ, IN|0|INR|1,250.00 Dr.|0|74332744
BDebitRow ==
    <<<<"1">>, <<"4","3","7","5">>,
      <<"0","1",",","1","0",",","2","0","2","4">>,
      <<"A","M","Z",","," ","I","N">>, <<"0">>, <<"I","N","R">>,
      <<"1",",","2","5","0",".","0","0"," ","D","r",".">>, <<"0">>,
      <<"7","4","3","3","2","7","4","4">>>>

\* a credit (a payment):
\*   2|4375|02102024|PAYMENT|0|INR|500.0 Cr.|0| 74339911 
BCreditRow ==
    <<<<"2">>, <<"4","3","7","5">>, <<"0","2","1","0","2","0","2","4">>,
      <<"P","A","Y","M","E","N","T">>, <<"0">>, <<"I","N","R">>,
      <<"5","0","0",".","0"," ","C","r",".">>, <<"0">>,
      <<" ","7","4","3","3","9","9","1","1"," ">>>>

\* a debit whose reference field has 2 characters:
\*   3|4375|03102024|FUEL|0|INR|90|0|12
BShortRefRow ==
    <<<<"3">>, <<"4","3","7","5">>, <<"0","3","1","0","2","0","2","4">>,
      <<"F","U","E","L">>, <<"0">>, <<"I","N","R">>, <<"9","0">>, <<"0">>,
      <<"1","2">>>>

\* a row of 3 fields:
\*   4|4375|04102024
BShortRow ==
    <<<<"4">>, <<"4","3","7","5">>, <<"0","4","1","0","2","0","2","4">>>>

\* a row of one field (a title line of the preamble):
\*   ICICI BANK
BTitleRow ==
    <<<<"I","C","I","C","I"," ","B","A","N","K">>>>

\* a debit whose date is not a day of the calendar:
\*   5|4375|31022024|GYM|0|INR|75.0 Dr.|0|74340001
BBadDateRow ==
    <<<<"5">>, <<"4","3","7","5">>, <<"3","1","0","2","2","0","2","4">>,
      <<"G","Y","M">>, <<"0">>, <<"I","N","R">>,
      <<"7","5",".","0"," ","D","r",".">>, <<"0">>,
      <<"7","4","3","4","0","0","0","1">>>>

\* a credit whose amount text is inf:
\*   6|4375|05102024|ADJ|0|INR|inf Cr.|0|74340002
BInfAmountRow ==
    <<<<"6">>, <<"4","3","7","5">>, <<"0","5","1","0","2","0","2","4">>,
      <<"A","D","J">>, <<"0">>, <<"I","N","R">>,
      <<"i","n","f"," ","C","r",".">>, <<"0">>,
      <<"7","4","3","4","0","0","0","2">>>>

\* a row whose date field is one blank:
\*   7|4375| |TAX|0|INR|10.0 Dr.|0|74340003
BBlankDateRow ==
    <<<<"7">>, <<"4","3","7","5">>, <<" ">>, <<"T","A","X">>, <<"0">>,
      <<"I","N","R">>, <<"1","0",".","0"," ","D","r",".">>, <<"0">>,
      <<"7","4","3","4","0","0","0","3">>>>

\* a row whose date field is empty:
\*   8|4375||FEE|0|INR|20.0 Dr.|0|74340004
BEmptyDateRow ==
    <<<<"8">>, <<"4","3","7","5">>, <<>>, <<"F","E","E">>, <<"0">>,
      <<"I","N","R">>, <<"2","0",".","0"," ","D","r",".">>, <<"0">>,
      <<"7","4","3","4","0","0","0","4">>>>

\* a row whose amount field is blank:
\*   9|4375|06102024|HOLD|0|INR|  |0|74340005
BEmptyAmountRow ==
    <<<<"9">>, <<"4","3","7","5">>, <<"0","6","1","0","2","0","2","4">>,
      <<"H","O","L","D">>, <<"0">>, <<"I","N","R">>, <<" "," ">>, <<"0">>,
      <<"7","4","3","4","0","0","0","5">>>>

ARows ==
    {EmptyLine, SampleRow, ZeroRefRow, ZeroRefRow2, AllZerosRefRow, CommaRow,
     BlankDebitRow, ShortRow, ShortRefRow, BadDateRow, NanAmountRow}

\* what precedes the data rows: nothing, a blank line, the header, or both
APrefixes ==
    {<<>>, <<EmptyLine>>, <<HeaderLine>>, <<EmptyLine, HeaderLine>>,
     <<Header8Line>>, <<EmptyLine, Header8Line>>}

SeqsUpTo(S, n) == UNION {[1..k -> S] : k \in 0..n}

FormatAStatements ==
    {p \o r : p \in APrefixes, r \in SeqsUpTo(ARows, MaxRows)}

BRows ==
    {EmptyLine, BDebitRow, BCreditRow, BShortRefRow, BShortRow, BMarkerRow,
     BBadDateRow, BInfAmountRow, BBlankDateRow, BEmptyDateRow, BEmptyAmountRow}

\* what precedes the data rows: a preamble (which may open with a title line
\* or hold a row that looks like a data row), the marker row, the column
\* headers
BPrefixes ==
    {<<>>, <<BPreambleRow>>, <<BPreambleRow, BTitleRow>>,
     <<BPreambleRow, EmptyLine, BMarkerRow>>,
     <<BMarkerRow, BColumnHeaderRow>>,
     <<BPreambleRow, BMarkerRow, BColumnHeaderRow>>,
     <<BTitleRow, BMarkerRow, BColumnHeaderRow>>,
     <<BDebitRow, BMarkerRow, BColumnHeaderRow>>}

FormatBStatements ==
    {p \o r : p \in BPrefixes, r \in SeqsUpTo(BRows, MaxRows)}

(***************************************************************************)
(* The tables the modelled format-C documents are made of (cells are      *)
(* separated by | in the comments).  No modelled amount is zero.           *)
(***************************************************************************)
\* a purchase; the date cell carries a time, the amount a thousands separator:
\*   01/10/2024 10:15:30|AMAZON|12|1,250.00
CcDebitRow ==
    <<<<"0","1","/","1","0","/","2","0","2","4"," ","1","0",":","1","5",":","3","0">>,
      <<"A","M","A","Z","O","N">>, <<"1","2">>,
      <<"1",",","2","5","0",".","0","0">>>>

\* a payment, with the credit marker:
\*   02/10/2024| PAYMENT |0|500.00 Cr
CcCreditRow ==
    <<<<"0","2","/","1","0","/","2","0","2","4">>,
      <<" ","P","A","Y","M","E","N","T"," ">>, <<"0">>,
      <<"5","0","0",".","0","0"," ","C","r">>>>

\* a row of the table that is not a transaction (its date cell is no date):
\*   Total||0|750.00
CcBadDateRow ==
    <<<<"T","o","t","a","l">>, <<>>, <<"0">>,
      <<"7","5","0",".","0","0">>>>

\* a purchase in a table without the reward-points column:
\*   03/10/2024|FUEL|90.00
CcDebitRow3 ==
    <<<<"0","3","/","1","0","/","2","0","2","4">>, <<"F","U","E","L">>,
      <<"9","0",".","0","0">>>>

\* a refund in a table without the reward-points column:
\*   04/10/2024|REFUND|40.00 Cr
CcCreditRow3 ==
    <<<<"0","4","/","1","0","/","2","0","2","4">>,
      <<"R","E","F","U","N","D">>, <<"4","0",".","0","0"," ","C","r">>>>

\* a purchase whose description was extracted as two cells (5 cells):
\*   05/10/2024|HOTEL|IBIS|5|300.00
CcSplitRow5 ==
    <<<<"0","5","/","1","0","/","2","0","2","4">>,
      <<"H","O","T","E","L">>, <<"I","B","I","S">>, <<"5">>,
      <<"3","0","0",".","0","0">>>>

\* a row of a table of two columns:
\*   06/10/2024|NOTE
CcNarrowRow ==
    <<<<"0","6","/","1","0","/","2","0","2","4">>, <<"N","O","T","E">>>>

\* a row of width cells, the first of which is the given text
TitleRow(text, width) == <<text>> \o [i \in 1..(width - 1) |-> <<>>]

\* the first row of a domestic-transactions table
DomesticTitleRow(width) == TitleRow(DomesticTransactions, width)

\* the first row when the extraction put the two words in two cells
SplitTitleRow(width) ==
    <<SubSeq(DomesticTransactions, 1, 8), SubSeq(DomesticTransactions, 10, 21)>>
      \o [i \in 1..(width - 2) |-> <<>>]

\* the first row of another section of the statement
InternationalTitleRow(width) ==
    TitleRow(<<"I","n","t","e","r","n","a","t","i","o","n","a","l"," ">>
               \o SubSeq(DomesticTransactions, 10, 21), width)

\* the table of a section: its title row, three more rows of headings, then
\* the data rows
SectionTable(title, width, data) ==
    <<title>> \o [i \in 1..(HeaderRowsSkipped - 1) |-> TitleRow(<<>>, width)]
      \o data

\* the data rows a table of a given width may hold
CcRows(width) ==
    IF width = 4 THEN {CcDebitRow, CcCreditRow, CcBadDateRow}
    ELSE IF width = 3 THEN {CcDebitRow3, CcCreditRow3}
    ELSE IF width = 5 THEN {CcSplitRow5}
    ELSE {CcNarrowRow}

CcWidths == {2, 3, 4, 5}

\* domestic-transactions tables, with no data row or more
DomesticTables ==
    UNION {{SectionTable(DomesticTitleRow(w), w, d) :
                d \in SeqsUpTo(CcRows(w), MaxRows)} : w \in CcWidths}
    \cup {SectionTable(SplitTitleRow(4), 4, <<CcDebitRow>>)}

\* tables of other sections, and a table of one row
OtherTables ==
    {SectionTable(InternationalTitleRow(4), 4, <<CcDebitRow>>),
     <<DomesticTitleRow(4)>>}

\* what one flavor of camelot.read_pdf may return for a document
TableLists ==
    {<<>>}
    \cup {<<t>> : t \in DomesticTables \cup OtherTables}
    \cup {<<SectionTable(InternationalTitleRow(4), 4, <<CcDebitRow>>),
            SectionTable(DomesticTitleRow(4), 4, <<CcCreditRow>>)>>}

HdfcParsers == {"bst", "abi"}

(***************************************************************************)
(* The parsers as functions of the whole statement.                        *)
(***************************************************************************)
Returned(ts, w) ==
    [status |-> "returned", exc |-> "none", transactions |-> ts, warnings |-> w]

\* an exception leaves the parser: the caller gets no list
Failed(e, w) ==
    [status |-> "raised", exc |-> e, transactions |-> <<>>, warnings |-> w]

RECURSIVE HdfcLoop(_, _, _, _, _)
HdfcLoop(impl, num_cols, rows, ts, w) ==
    IF rows = <<>> THEN Returned(ts, w)
    ELSE LET r == HdfcRow(impl, num_cols, Head(rows))
         IN  IF r.kind = "raise" THEN Failed(r.exc, w)
             ELSE IF r.kind = "append"
                  THEN HdfcLoop(impl, num_cols, Tail(rows), Append(ts, r.txn), w)
                  ELSE HdfcLoop(impl, num_cols, Tail(rows), ts, w + 1)

\* bank_statement_transformer: next(csvfile); first_line = next(csvfile)
BstTransform(file_contents) ==
    IF Len(file_contents) < 2 THEN Failed("StopIteration", 0)
    ELSE HdfcLoop("bst", NumCols(file_contents[2]),
                  PySliceFrom(file_contents, 2), <<>>, 0)

\* actual_budget_importer: first_line = next(csvfile); seek(0); next(csvfile)
AbiTransform(file_contents) ==
    IF Len(file_contents) < 1 THEN Failed("StopIteration", 0)
    ELSE HdfcLoop("abi", NumCols(file_contents[1]),
                  PySliceFrom(file_contents, 1), <<>>, 0)

transform_hdfc_csv_to_transactions(impl, file_contents) ==
    IF impl = "abi" THEN AbiTransform(file_contents)
    ELSE BstTransform(file_contents)

RECURSIVE IciciLoop(_, _)
IciciLoop(rows, ts) ==
    IF rows = <<>> THEN Returned(ts, 0)
    ELSE LET r == IciciRow(Head(rows))
         IN  IF r.kind = "raise" THEN Failed(r.exc, 0)
             ELSE IF r.kind = "append"
                  THEN IciciLoop(Tail(rows), Append(ts, r.txn))
                  ELSE IciciLoop(Tail(rows), ts)

\* the first loop: the rows up to the marker row and the column headers
RECURSIVE IciciScan(_)
IciciScan(rows) ==
    IF rows = <<>> THEN Returned(<<>>, 0)
    ELSE IF IciciScanRaises(Head(rows)) THEN Failed("IndexError", 0)
    ELSE IF IciciIsMarker(Head(rows))
         THEN IF Len(rows) = 1 THEN Returned(<<>>, 0)
              ELSE IciciLoop(PySliceFrom(rows, 2), <<>>)
         ELSE IciciScan(Tail(rows))

transform_icici_credit_card_statement_csv_to_transactions(file_contents) ==
    IciciScan(file_contents)

RECURSIVE CcLoop(_, _)
CcLoop(rows, ts) ==
    IF rows = <<>> THEN Returned(ts, 0)
    ELSE LET r == CcRow(Head(rows))
         IN  IF r.kind = "raise" THEN Failed(r.exc, 0)
             ELSE IF r.kind = "append"
                  THEN CcLoop(Tail(rows), Append(ts, r.txn))
                  ELSE CcLoop(Tail(rows), ts)

\* the frames of the lattice tables, then those of the stream tables
DomesticTransactionDfs(lattice, stream) ==
    DomesticFrames(lattice) \o DomesticFrames(stream)

\* pd.concat(...).drop_duplicates()
CombinedDf(lattice, stream) ==
    DropDuplicates(Concat(DomesticTransactionDfs(lattice, stream)))

transform_hdfc_credit_card_statement_to_transactions(lattice, stream) ==
    IF DomesticTransactionDfs(lattice, stream) = <<>> THEN Returned(<<>>, 1)
    ELSE IF Len(CombinedDf(lattice, stream)) > 1
         THEN CcLoop(CombinedDf(lattice, stream), <<>>)
         ELSE Returned(<<>>, 0)

(***************************************************************************)
(* The payee heuristics: functions from a narration to an optional payee.  *)
(* An optional string is a record: None, or Str(s) for the string s.       *)
(***************************************************************************)
None == [kind |-> "None", text |-> <<>>]

Str(s) == [kind |-> "str", text |-> s]

UpiDash == <<"u","p","i","-">>

Neft == <<"n","e","f","t">>

Rtgs == <<"r","t","g","s">>

\* the value the function returns when no rule matches
BstNoMatch == None

AbiNoMatch == Str(<<>>)

\* the prefixes looked for in narration instead of narration_lower
HdfcPayeeCaseSensitive(no_match, narration) ==
    LET parts == Split(narration, "-")
    IN  IF StartsWith(narration, UpiDash)
        THEN IF Len(parts) > 1 THEN Str(Strip(parts[2])) ELSE no_match
        ELSE IF StartsWith(narration, Neft) \/ StartsWith(narration, Rtgs)
        THEN IF Len(parts) > 2 THEN Str(Strip(parts[3])) ELSE no_match
        ELSE no_match

\* extract_payee_from_hdfc_bank_statement_narration, with the value of its
\* last return statement
HdfcPayee(no_match, narration) ==
    LET narration_lower == Lower(narration)
        parts == Split(narration, "-")
    IN  IF StartsWith(narration_lower, UpiDash)
        THEN IF Len(parts) > 1 THEN Str(Strip(parts[2])) ELSE no_match
        ELSE IF StartsWith(narration_lower, Neft)
                \/ StartsWith(narration_lower, Rtgs)
        THEN IF Len(parts) > 2 THEN Str(Strip(parts[3])) ELSE no_match
        ELSE no_match

\* bank_statement_transformer (transformers/hdfc_bank_statement_csv.py and,
\* the same text, main.py)
extract_payee_from_hdfc_bank_statement_narration(narration) ==
    HdfcPayee(BstNoMatch, narration)

\* actual_budget_importer
abi_extract_payee_from_hdfc_bank_statement_narration(narration) ==
    HdfcPayee(AbiNoMatch, narration)

\* the first segment without the strip
IciciFirstPartUnstripped(parts) == Str(parts[1])

\* parts[0].strip()
IciciFirstPart(parts) == Str(Strip(parts[1]))

\* the argument is an optional string: `not narration` holds for None and ""
extract_payee_from_icici_credit_card_narration(narration) ==
    IF narration = None \/ narration.text = <<>> THEN None
    ELSE LET parts == Split(narration.text, ",")
         IN  IF parts # <<>> THEN IciciFirstPart(parts) ELSE None

extract_payee_from_hdfc_credit_card_narration(narration) == None

\* the four functions by name; the format-A ones take a str
PayeeExtractors ==
    {"extract_payee_from_hdfc_bank_statement_narration",
     "abi.extract_payee_from_hdfc_bank_statement_narration",
     "extract_payee_from_icici_credit_card_narration",
     "extract_payee_from_hdfc_credit_card_narration"}

ApplyPayeeExtractor(f, narration) ==
    IF f = "extract_payee_from_hdfc_bank_statement_narration"
    THEN extract_payee_from_hdfc_bank_statement_narration(narration.text)
    ELSE IF f = "abi.extract_payee_from_hdfc_bank_statement_narration"
    THEN abi_extract_payee_from_hdfc_bank_statement_narration(narration.text)
    ELSE IF f = "extract_payee_from_icici_credit_card_narration"
    THEN extract_payee_from_icici_credit_card_narration(narration)
    ELSE extract_payee_from_hdfc_credit_card_narration(narration)

(***************************************************************************)
(* The state: one invocation of one parser on one statement, and what a    *)
(* payee call and main() keep around it.                                   *)
(***************************************************************************)
VARIABLES
    parser,        \* which function runs: "bst", "abi" (format A), "icici" (B),
                   \* "hdfc_cc" (format C)
    lines,         \* formats A and B: file_contents, line by line
    tables_lattice, \* format C: camelot.read_pdf(..., flavor='lattice')
    tables_stream, \* format C: camelot.read_pdf(..., flavor='stream')
    combined_df,   \* format C: the rows of combined_df
    pc,            \* where the function is
    pos,           \* lines the file object / csv reader has yielded
    num_cols,      \* format A: the header's field count
    row,           \* the loop's row, as the last pass left it
    transactions,  \* the list being built
    warnings,      \* logging.warning calls made
    exc,           \* the exception that left the function, "none" if none
    file_size,     \* format C: len(file_contents), the PDF document's bytes
    buffered,      \* format C: bytes held in temp_file's write buffer
    on_disk,       \* format C: bytes a reader of temp_file_path finds
    payee_extractor, \* the payee function chosen or applied, "none" if none
    narration,     \* the argument of the payee function
    payee,         \* what the payee function returned
    app,           \* the program whose main() runs, "none" for a bare parser
    data_source,   \* main: the source tag chosen by the caller
    invoked,       \* main: the parser calls made, with the kind of payload
    received,      \* main: its local `transactions` is bound (to transactions)
    error,         \* main: str(e) of the exception that left it, <<>> if none
    df,            \* bank_statement_transformer: the rows shown to the caller
    submitted,     \* actual_budget_importer: reconcile_transaction calls of
                   \* the running import
    session,       \* actual_budget_importer: the ledger as the open session
                   \* sees it, imported_id -> entry
    ledger,        \* the ledger's committed entries, imported_id -> entry
    commits,       \* actual.commit() calls of the running import
    imports        \* imports of the statement that ran to their end

vars ==
    <<parser, lines, tables_lattice, tables_stream, combined_df, pc, pos,
      num_cols, row, transactions, warnings, exc, file_size, buffered,
      on_disk, payee_extractor, narration, payee, app, data_source, invoked,
      received, error, df, submitted, session, ledger, commits, imports>>

\* the state of one parser invocation
parser_vars ==
    <<parser, lines, tables_lattice, tables_stream, combined_df, pos,
      num_cols, row, warnings, file_size, buffered, on_disk>>

\* the state of a payee function's call
payee_vars == <<narration, payee>>

\* the state of main() and of the ledger it feeds
caller_vars ==
    <<app, data_source, invoked, received, error, df, submitted, session,
      ledger, commits, imports>>

\* what a bare parser invocation leaves alone
outer_vars == <<payee_extractor, payee_vars, caller_vars>>

\* the state of the format-C parser, which the other parsers leave alone
pdf_vars ==
    <<tables_lattice, tables_stream, combined_df, file_size, buffered, on_disk>>

CsvParsers == HdfcParsers \cup {"icici"}

Parsers == CsvParsers \cup {"hdfc_cc"}

\* the buffer of the file object NamedTemporaryFile returns: the block size of
\* the temporary directory's file system (4096 where this was measured) or
\* io.DEFAULT_BUFFER_SIZE
BufferSize == 4096

\* len(file_contents) of the PDF documents
FileSizes == {1000, BufferSize, 60000}

\* nothing of a payee call or of main() is running
OuterIdle ==
    /\ payee_extractor = "none"
    /\ narration = Str(<<>>)
    /\ payee = None
    /\ app = "none"
    /\ data_source = ""
    /\ invoked = <<>>
    /\ received = FALSE
    /\ error = <<>>
    /\ df = <<>>
    /\ submitted = <<>>
    /\ session = {}
    /\ ledger = {}
    /\ commits = 0
    /\ imports = 0

Init ==
    /\ parser \in Parsers
    /\ lines \in (IF parser = "icici" THEN FormatBStatements
                  ELSE IF parser = "hdfc_cc" THEN {<<>>}
                  ELSE FormatAStatements)
    /\ file_size \in (IF parser = "hdfc_cc" THEN FileSizes ELSE {0})
    /\ buffered = 0
    /\ on_disk = 0
    /\ tables_lattice = <<>>
    /\ tables_stream = <<>>
    /\ combined_df = <<>>
    /\ pc = (IF parser = "bst" THEN "skip_line"
            ELSE IF parser = "abi" THEN "header"
            ELSE IF parser = "icici" THEN "scan" ELSE "temp_file")
    /\ pos = 0
    /\ num_cols = 0
    /\ row = <<>>
    /\ transactions = <<>>
    /\ warnings = 0
    /\ exc = "none"
    /\ OuterIdle

\* bst: next(csvfile), "skip empty line"
SkipFirstLine ==
    /\ parser = "bst"
    /\ pc = "skip_line"
    /\ pc' = IF pos >= Len(lines) THEN "raised" ELSE "header"
    /\ exc' = IF pos >= Len(lines) THEN "StopIteration" ELSE exc
    /\ pos' = IF pos >= Len(lines) THEN pos ELSE pos + 1
    /\ UNCHANGED pdf_vars
    /\ UNCHANGED outer_vars
    /\ UNCHANGED <<parser, lines, num_cols, row, transactions, warnings>>

\* bst: first_line = next(csvfile).strip(); num_cols; reader = csv.reader(csvfile)
BstReadHeader ==
    /\ parser = "bst"
    /\ pc = "header"
    /\ pc' = IF pos >= Len(lines) THEN "raised" ELSE "rows"
    /\ exc' = IF pos >= Len(lines) THEN "StopIteration" ELSE exc
    /\ pos' = IF pos >= Len(lines) THEN pos ELSE pos + 1
    /\ num_cols' = IF pos >= Len(lines) THEN num_cols ELSE NumCols(lines[pos + 1])
    /\ UNCHANGED pdf_vars
    /\ UNCHANGED outer_vars
    /\ UNCHANGED <<parser, lines, row, transactions, warnings>>

\* abi: first_line = next(csvfile).strip(); num_cols; csvfile.seek(0)
AbiReadHeader ==
    /\ parser = "abi"
    /\ pc = "header"
    /\ pc' = IF pos >= Len(lines) THEN "raised" ELSE "skip_header"
    /\ exc' = IF pos >= Len(lines) THEN "StopIteration" ELSE exc
    /\ num_cols' = IF pos >= Len(lines) THEN num_cols ELSE NumCols(lines[pos + 1])
    /\ UNCHANGED pdf_vars
    /\ UNCHANGED outer_vars
    /\ UNCHANGED <<parser, lines, pos, row, transactions, warnings>>

\* abi: next(csvfile), "Skip the header row"; reader = csv.reader(csvfile)
AbiSkipHeader ==
    /\ parser = "abi"
    /\ pc = "skip_header"
    /\ pos' = pos + 1
    /\ pc' = "rows"
    /\ UNCHANGED pdf_vars
    /\ UNCHANGED outer_vars
    /\ UNCHANGED <<parser, lines, num_cols, row, transactions, warnings, exc>>

\* the pass with transactions.insert(0, ...) in place of transactions.append
HdfcLoopRowInsertFirst ==
    /\ parser \in HdfcParsers
    /\ pc = "rows"
    /\ pos < Len(lines)
    /\ LET r == HdfcRow(parser, num_cols, lines[pos + 1])
       IN  /\ pos' = pos + 1
           /\ row' = MergeNarration(FilterBlank(lines[pos + 1]), num_cols)
           /\ pc' = IF r.kind = "raise" THEN "raised" ELSE pc
           /\ exc' = r.exc
           /\ transactions' =
                  IF r.kind = "append" THEN <<r.txn>> \o transactions
                  ELSE transactions
           /\ warnings' = IF r.kind = "warning" THEN warnings + 1 ELSE warnings
           /\ UNCHANGED pdf_vars
           /\ UNCHANGED outer_vars
           /\ UNCHANGED <<parser, lines, num_cols>>

\* format A: one pass of the row loop
HdfcLoopRow ==
    /\ parser \in HdfcParsers
    /\ pc = "rows"
    /\ pos < Len(lines)
    /\ LET r == HdfcRow(parser, num_cols, lines[pos + 1])
       IN  /\ pos' = pos + 1
           /\ row' = MergeNarration(FilterBlank(lines[pos + 1]), num_cols)
           /\ pc' = IF r.kind = "raise" THEN "raised" ELSE pc
           /\ exc' = r.exc
           /\ transactions' =
                  IF r.kind = "append" THEN Append(transactions, r.txn)
                  ELSE transactions
           /\ warnings' = IF r.kind = "warning" THEN warnings + 1 ELSE warnings
           /\ UNCHANGED pdf_vars
           /\ UNCHANGED outer_vars
           /\ UNCHANGED <<parser, lines, num_cols>>

\* icici: one pass of the first loop, which looks for the marker row; when
\* the reader is exhausted the loop ends and the second loop finds no row
IciciScanRow ==
    /\ parser = "icici"
    /\ pc = "scan"
    /\ IF pos >= Len(lines)
       THEN /\ pc' = "rows"
            /\ UNCHANGED <<pos, row, exc>>
       ELSE /\ pos' = pos + 1
            /\ row' = lines[pos + 1]
            /\ pc' = IF IciciScanRaises(lines[pos + 1]) THEN "raised"
                     ELSE IF IciciIsMarker(lines[pos + 1]) THEN "skip_headers"
                     ELSE "scan"
            /\ exc' = IF IciciScanRaises(lines[pos + 1]) THEN "IndexError" ELSE exc
    /\ UNCHANGED pdf_vars
    /\ UNCHANGED outer_vars
    /\ UNCHANGED <<parser, lines, num_cols, transactions, warnings>>

\* icici: next(reader) "Skip column headers"; StopIteration returns the list
IciciSkipColumnHeaders ==
    /\ parser = "icici"
    /\ pc = "skip_headers"
    /\ pc' = IF pos >= Len(lines) THEN "returned" ELSE "rows"
    /\ pos' = IF pos >= Len(lines) THEN pos ELSE pos + 1
    /\ UNCHANGED pdf_vars
    /\ UNCHANGED outer_vars
    /\ UNCHANGED <<parser, lines, num_cols, row, transactions, warnings, exc>>

\* icici: one pass of the second loop
IciciLoopRow ==
    /\ parser = "icici"
    /\ pc = "rows"
    /\ pos < Len(lines)
    /\ LET r == IciciRow(lines[pos + 1])
       IN  /\ pos' = pos + 1
           /\ row' = lines[pos + 1]
           /\ pc' = IF r.kind = "raise" THEN "raised" ELSE pc
           /\ exc' = r.exc
           /\ transactions' =
                  IF r.kind = "append" THEN Append(transactions, r.txn)
                  ELSE transactions
           /\ UNCHANGED pdf_vars
           /\ UNCHANGED outer_vars
           /\ UNCHANGED <<parser, lines, num_cols, warnings>>

\* format C: temp_file.write(file_contents) on the file object just opened.
\* A write that fits the buffer stays in the buffer; a larger one is passed
\* to the file.  Nothing flushes the buffer before the with block ends.
CcWriteTempFile ==
    /\ parser = "hdfc_cc"
    /\ pc = "temp_file"
    /\ IF file_size <= BufferSize
       THEN buffered' = file_size /\ on_disk' = 0
       ELSE buffered' = 0 /\ on_disk' = file_size
    /\ pc' = "read_lattice"
    /\ UNCHANGED outer_vars
    /\ UNCHANGED <<parser, lines, tables_lattice, tables_stream, combined_df,
                   pos, num_cols, row, transactions, warnings, exc, file_size>>

\* what camelot.read_pdf(temp_file_path, ...) does with the bytes it finds:
\* it returns the document's tables, or raises on a file that is not the
\* whole document (an empty file is not a PDF)
ReadPdf(found, size) ==
    IF found = size THEN [kind |-> "return", tables |-> TableLists]
    ELSE [kind |-> "raise", tables |-> {<<>>}]

\* format C: camelot.read_pdf(temp_file_path, flavor='lattice'), inside the
\* with block; an exception leaves the block, which closes the file
CcReadPdfLattice ==
    /\ parser = "hdfc_cc"
    /\ pc = "read_lattice"
    /\ LET r == ReadPdf(on_disk, file_size)
       IN  /\ tables_lattice' \in r.tables
           /\ pc' = IF r.kind = "raise" THEN "raised" ELSE "read_stream"
           /\ exc' = IF r.kind = "raise" THEN "PdfReadError" ELSE exc
           /\ on_disk' = IF r.kind = "raise" THEN file_size ELSE on_disk
           /\ buffered' = IF r.kind = "raise" THEN 0 ELSE buffered
    /\ UNCHANGED outer_vars
    /\ UNCHANGED <<parser, lines, tables_stream, combined_df, pos, num_cols,
                   row, transactions, warnings, file_size>>

\* format C: camelot.read_pdf(temp_file_path, flavor='stream')
CcReadPdfStream ==
    /\ parser = "hdfc_cc"
    /\ pc = "read_stream"
    /\ LET r == ReadPdf(on_disk, file_size)
       IN  /\ tables_stream' \in r.tables
           /\ pc' = IF r.kind = "raise" THEN "raised" ELSE "tables"
           /\ exc' = IF r.kind = "raise" THEN "PdfReadError" ELSE exc
           /\ on_disk' = IF r.kind = "raise" THEN file_size ELSE on_disk
           /\ buffered' = IF r.kind = "raise" THEN 0 ELSE buffered
    /\ UNCHANGED outer_vars
    /\ UNCHANGED <<parser, lines, tables_lattice, combined_df, pos, num_cols,
                   row, transactions, warnings, file_size>>

\* format C: the two filter loops, pd.concat and drop_duplicates; without a
\* qualifying table, logging.warning and return transactions
CcCombineTables ==
    /\ parser = "hdfc_cc"
    /\ pc = "tables"
    /\ IF DomesticTransactionDfs(tables_lattice, tables_stream) = <<>>
       THEN /\ warnings' = warnings + 1
            /\ pc' = "returned"
            /\ UNCHANGED combined_df
       ELSE /\ combined_df' = CombinedDf(tables_lattice, tables_stream)
            /\ pc' = "rows"
            /\ UNCHANGED warnings
    /\ UNCHANGED outer_vars
    /\ UNCHANGED <<parser, lines, tables_lattice, tables_stream, pos, num_cols,
                   row, transactions, exc, file_size, buffered, on_disk>>

\* format C: one pass of the loop over combined_df.iterrows(), which is
\* entered only if len(combined_df) > 1
CcLoopRow ==
    /\ parser = "hdfc_cc"
    /\ pc = "rows"
    /\ Len(combined_df) > 1
    /\ pos < Len(combined_df)
    /\ LET r == CcRow(combined_df[pos + 1])
       IN  /\ pos' = pos + 1
           /\ row' = combined_df[pos + 1]
           /\ pc' = IF r.kind = "raise" THEN "raised" ELSE pc
           /\ exc' = r.exc
           /\ transactions' =
                  IF r.kind = "append" THEN Append(transactions, r.txn)
                  ELSE transactions
           /\ UNCHANGED outer_vars
           /\ UNCHANGED <<parser, lines, tables_lattice, tables_stream,
                          combined_df, num_cols, warnings, file_size,
                          buffered, on_disk>>

\* format C: the loop is over, or was not entered: return transactions
CcReturn ==
    /\ parser = "hdfc_cc"
    /\ pc = "rows"
    /\ Len(combined_df) <= 1 \/ pos = Len(combined_df)
    /\ pc' = "returned"
    /\ UNCHANGED outer_vars
    /\ UNCHANGED <<parser, lines, tables_lattice, tables_stream, combined_df,
                   pos, num_cols, row, transactions, warnings, exc, file_size,
                   buffered, on_disk>>

\* the reader is exhausted: return transactions
Return ==
    /\ parser \in CsvParsers
    /\ pc = "rows"
    /\ pos = Len(lines)
    /\ pc' = "returned"
    /\ UNCHANGED pdf_vars
    /\ UNCHANGED outer_vars
    /\ UNCHANGED <<parser, lines, pos, num_cols, row, transactions, warnings, exc>>

Next ==
    \/ SkipFirstLine
    \/ BstReadHeader
    \/ AbiReadHeader
    \/ AbiSkipHeader
    \/ HdfcLoopRow
    \/ IciciScanRow
    \/ IciciSkipColumnHeaders
    \/ IciciLoopRow
    \/ Return
    \/ CcWriteTempFile
    \/ CcReadPdfLattice
    \/ CcReadPdfStream
    \/ CcCombineTables
    \/ CcLoopRow
    \/ CcReturn

Spec == Init /\ [][Next]_vars

\* the parser as a function of the statement
Transform(impl, file_contents) ==
    IF impl = "icici"
    THEN transform_icici_credit_card_statement_csv_to_transactions(file_contents)
    ELSE transform_hdfc_csv_to_transactions(impl, file_contents)

\* the format-C parser as a function of the document: its size and the
\* tables the two flavors find in it
ParsePdf(size, lattice, stream) ==
    IF ReadPdf(IF size <= BufferSize THEN 0 ELSE size, size).kind = "raise"
    THEN Failed("PdfReadError", 0)
    ELSE transform_hdfc_credit_card_statement_to_transactions(lattice, stream)

\* the run has ended: the function returned or an exception left it
Ended == pc \in {"returned", "raised"}

\* the state machine ends where the function of the whole statement ends
ResultIsTransform ==
    Ended =>
        LET res == IF parser = "hdfc_cc"
                   THEN ParsePdf(file_size, tables_lattice, tables_stream)
                   ELSE Transform(parser, lines)
        IN  /\ res.status = pc
            /\ res.exc = exc
            /\ res.warnings = warnings
            /\ pc = "returned" => res.transactions = transactions

(***************************************************************************)
(* Vocabulary of the properties.                                           *)
(***************************************************************************)
\* the run is past the header: the row loop of a format-A parser has made
\* at least one pass, and lines[pos] is the line that pass read
InHdfcLoop ==
    /\ parser \in HdfcParsers
    /\ pc \in {"rows", "returned", "raised"}
    /\ exc # "StopIteration"
    /\ pos > (IF parser = "bst" THEN 2 ELSE 1)

\* a data row as the format describes it: 7 non-blank tokens that parse,
\* and a reference that is all zeros or longer than 3 characters
WellFormedRow(r) ==
    /\ Len(r) = 7
    /\ FilterBlank(r) = r
    /\ StrpDateOk(Strip(r[1]))
    /\ FloatOk(r[4]) /\ FloatOk(r[5]) /\ FloatOk(r[7])
    /\ \/ Len(Strip(r[6])) > 3
       \/ \A i \in 1..Len(Strip(r[6])) : Strip(r[6])[i] = "0"

\* a text of one or more characters, all of them 0
AllZeros(s) == Len(s) >= 1 /\ \A i \in 1..Len(s) : s[i] = "0"

\* the transaction a well-formed row stands for (bank_statement_transformer)
RowTransaction(r) ==
    LET amount == FloatOf(r[5]) - FloatOf(r[4])
        date == StrpDate(Strip(r[1]))
    IN  [amount |-> amount,
         narration |-> Strip(r[2]),
         ref_id |-> IF AllZeros(Strip(r[6]))
                    THEN [kind |-> "sha256",
                          text |-> IsoFormat(date) \o <<":">> \o FloatStr(amount)
                                     \o <<":">> \o Strip(r[2])]
                    ELSE [kind |-> "text", text |-> Strip(r[6])],
         date |-> date,
         closing_balance |-> FloatOf(r[7])]

\* the transaction of the sample of tests.py: amount 15296.0, reference
\* 9053114532, date 2024-10-01, closing balance 51807.2
SampleTransaction ==
    [amount |-> 152960,
     narration |-> SampleRow[2],
     ref_id |-> [kind |-> "text",
                 text |-> <<"9","0","5","3","1","1","4","5","3","2">>],
     date |-> [y |-> 2024, m |-> 10, d |-> 1],
     closing_balance |-> 518072]

\* the statement is the header line (after an optional blank line) and rows
HasHeaderFirst == Len(lines) >= 1 /\ lines[1] = HeaderLine

HasBlankThenHeader ==
    Len(lines) >= 2 /\ lines[1] = EmptyLine /\ lines[2] = HeaderLine

\* the data rows of such a statement
DataRows ==
    IF HasHeaderFirst THEN PySliceFrom(lines, 1) ELSE PySliceFrom(lines, 2)

\* s without its i-th element
Without(s, i) == SubSeq(s, 1, i - 1) \o SubSeq(s, i + 1, Len(s))

(***************************************************************************)
(* C1.  A statement whose first line is the 7-column header and whose      *)
(* following k >= 1 lines are well-formed rows gives exactly k             *)
(* transactions, with the fields of the rows; the sample of tests.py gives *)
(* the one transaction the test expects.  (bank_statement_transformer)     *)
(***************************************************************************)
C1_HeaderFirstStatementGivesAllRows ==
    (/\ parser = "bst"
     /\ Ended
     /\ HasHeaderFirst
     /\ Len(lines) >= 2
     /\ \A i \in 2..Len(lines) : WellFormedRow(lines[i]))
    => /\ pc = "returned"
       /\ Len(transactions) = Len(lines) - 1
       /\ \A i \in 1..Len(transactions) :
              transactions[i] = RowTransaction(lines[i + 1])
       /\ lines = <<HeaderLine, SampleRow>> => transactions = <<SampleTransaction>>

(***************************************************************************)
(* C2.  The leading blank line is optional: each format-A parser returns   *)
(* for "blank line, header, rows" what it returns for "header, rows"       *)
(* (statements of one data row or more).                                   *)
(***************************************************************************)
C2_LeadingBlankLineOptional ==
    (parser \in HdfcParsers /\ Ended /\ HasBlankThenHeader /\ Len(lines) >= 3)
    => LET other == Transform(parser, Tail(lines))
       IN  /\ other.status = pc
           /\ pc = "returned" => other.transactions = transactions

(***************************************************************************)
(* C3.  Sign convention with blank fields: a row of 7 tokens whose debit   *)
(* or credit token is blank (the others being well formed) gives a         *)
(* transaction whose amount is credit - debit, the blank one counting 0;   *)
(* the row is not dropped.  Stated for a pass of the row loop under the    *)
(* 7-column header.                                                        *)
(***************************************************************************)
BlankAmountRow(r) ==
    /\ Len(r) = 7
    /\ \A i \in {1, 2, 3, 6, 7} : Strip(r[i]) # <<>>
    /\ Strip(r[4]) = <<>> \/ Strip(r[5]) = <<>>
    /\ Strip(r[4]) = <<>> \/ FloatOk(r[4])
    /\ Strip(r[5]) = <<>> \/ FloatOk(r[5])
    /\ StrpDateOk(Strip(r[1])) /\ FloatOk(r[7]) /\ Len(Strip(r[6])) > 3

BlankAsZero(text) == IF Strip(text) = <<>> THEN 0 ELSE FloatOf(text)

C3_BlankAmountFieldCountsAsZero ==
    [][(/\ parser \in HdfcParsers
        /\ pc = "rows"
        /\ pos < Len(lines)
        /\ num_cols = 7
        /\ BlankAmountRow(lines[pos + 1]))
       => /\ Len(transactions') = Len(transactions) + 1
          /\ transactions'[Len(transactions')].amount =
                 BlankAsZero(lines[pos + 1][5]) - BlankAsZero(lines[pos + 1][4])
          /\ warnings' = warnings]_vars

(***************************************************************************)
(* C4.  Comma-in-narration merge (bank_statement_transformer).  With t the *)
(* non-blank tokens of the line the pass read, N the header width and      *)
(* Len(t) = N + k, k >= 1: the rebuilt row is token 0, then the k + 1      *)
(* tokens at indices 1..k+1 trimmed and joined by one space, then the rest;*)
(* it has N fields; for N = 7 its last five fields are the last five       *)
(* tokens, and a transaction made of it takes its amount, reference and    *)
(* closing balance from them.                                              *)
(***************************************************************************)
MergedAsClaimed(t, N) ==
    LET k == Len(t) - N
    IN  /\ Len(row) = N
        /\ row = <<t[1], JoinStripped(SubSeq(t, 2, k + 2))>>
                   \o SubSeq(t, k + 3, Len(t))
        /\ N = 7 =>
             /\ SubSeq(row, 3, 7) = SubSeq(t, Len(t) - 4, Len(t))
             /\ (pc # "raised" /\ HdfcRow(parser, N, lines[pos]).kind = "append") =>
                  LET txn == transactions[Len(transactions)]
                  IN  /\ FloatOk(t[Len(t) - 3]) /\ FloatOk(t[Len(t) - 2])
                      /\ txn.amount = FloatOf(t[Len(t) - 2]) - FloatOf(t[Len(t) - 3])
                      /\ txn.ref_id.kind = "text" =>
                             txn.ref_id.text = Strip(t[Len(t) - 1])
                      /\ FloatOk(t[Len(t)])
                      /\ txn.closing_balance = FloatOf(t[Len(t)])
                      /\ txn.narration = JoinStripped(SubSeq(t, 2, k + 2))

IsShortRow(r) == Len(FilterBlank(r)) < 7

C5_OneShortRowOneWarning ==
    (/\ parser = "bst"
     /\ Ended
     /\ HasHeaderFirst \/ HasBlankThenHeader
     /\ Len(DataRows) >= 2
     /\ \E i \in 1..Len(DataRows) :
            /\ IsShortRow(DataRows[i])
            /\ \A j \in 1..Len(DataRows) : j # i => WellFormedRow(DataRows[j]))
    => /\ pc = "returned"
       /\ Len(transactions) = Len(DataRows) - 1
       /\ warnings = 1
       /\ \A i \in 1..Len(DataRows) :
              IsShortRow(DataRows[i]) =>
                  transactions =
                      Transform(parser,
                                Without(lines, Len(lines) - Len(DataRows) + i)
                               ).transactions

(***************************************************************************)
(* C6.  Row-width policy: in a statement that opens with a header row      *)
(* (after an optional blank line), a row that does not come to exactly 7   *)
(* fields after merging is dropped, and the parser does not raise because  *)
(* of it.                                                                  *)
(***************************************************************************)
IsHeaderLine(l) == l \in {HeaderLine, Header8Line}

OpensWithHeader ==
    \/ Len(lines) >= 1 /\ IsHeaderLine(lines[1])
    \/ Len(lines) >= 2 /\ lines[1] = EmptyLine /\ IsHeaderLine(lines[2])

C6_RowWidthNeverRaises ==
    (parser \in HdfcParsers /\ OpensWithHeader /\ InHdfcLoop /\ Len(row) # 7)
    => pc # "raised"

(***************************************************************************)
(* C7.  Zero-reference synthesis (bank_statement_transformer): in every    *)
(* pass that appends a transaction, the transaction's reference id is the  *)
(* 64-character digest of "ISO date:signed amount:trimmed narration"       *)
(* exactly when the trimmed reference field is "0" or all zeros, and the   *)
(* trimmed reference field otherwise; transactions of equal date, amount   *)
(* and narration that both carry a digest carry the same one.              *)
(***************************************************************************)
C7_ZeroReferenceSynthesis ==
    [][(parser = "bst" /\ Len(transactions') = Len(transactions) + 1)
       => LET txn == transactions'[Len(transactions')]
              ref == Strip(row'[6])
          IN  /\ Len(row') = 7
              /\ IF ref = <<"0">> \/ AllZeros(ref)
                 THEN /\ txn.ref_id.kind = "sha256"
                      /\ StrLen(txn.ref_id) = 64
                      /\ txn.ref_id.text =
                             IsoFormat(txn.date) \o <<":">> \o FloatStr(txn.amount)
                               \o <<":">> \o Strip(row'[2])
                 ELSE txn.ref_id = [kind |-> "text", text |-> ref]
              /\ \A i \in 1..Len(transactions) :
                     (/\ transactions[i].ref_id.kind = "sha256"
                      /\ txn.ref_id.kind = "sha256"
                      /\ transactions[i].date = txn.date
                      /\ transactions[i].amount = txn.amount
                      /\ transactions[i].narration = txn.narration)
                     => transactions[i].ref_id = txn.ref_id]_vars

\* an all-zeros reference was replaced by a digest, after a row whose
\* reference was kept, and a second zero-reference row repeated a digest
C7_Witness ==
    /\ parser = "bst"
    /\ pc = "returned"
    /\ Len(transactions) = 2
    /\ Len(row) = 7
    /\ Strip(row[6]) = <<"0","0","0","0">>
    /\ transactions[1].ref_id.kind = "text"
    /\ transactions[2].ref_id.kind = "sha256"

(***************************************************************************)
(* C8.  Reference-id uniqueness within a statement: no two transactions of *)
(* one returned list have the same reference id.  Stated for statements    *)
(* whose lines are pairwise different, so that equal ids are those of      *)
(* different source rows.                                                  *)
(***************************************************************************)
C8_ReferenceIdsUnique ==
    (/\ pc = "returned"
     /\ \A i, j \in 1..Len(lines) : i # j => lines[i] # lines[j])
    => \A i, j \in 1..Len(transactions) :
           i # j => transactions[i].ref_id # transactions[j].ref_id

(***************************************************************************)
(* C9.  Reference-id integrity: every transaction a parser emits has a     *)
(* reference id longer than 3 characters.                                  *)
(***************************************************************************)
C9_ReferenceIdLongerThanThree ==
    \A i \in 1..Len(transactions) : StrLen(transactions[i].ref_id) > 3

(***************************************************************************)
(* C10.  Integrity-violation policy of format A, for a pass whose row has  *)
(* 7 fields that parse and a reference id of 3 characters or fewer.        *)
(***************************************************************************)
ShortRefIdRow ==
    /\ InHdfcLoop
    /\ Len(row) = 7
    /\ StrpDateOk(Strip(row[1]))
    /\ AmountOk(row[4], row[5])
    /\ Len(Strip(row[6])) <= 3
    /\ ~AllZeros(Strip(row[6]))

\* the claim as made: only that row fails, the statement is not aborted
C10_ShortRefIdDropsOnlyTheRow == ShortRefIdRow => pc # "raised"

\* the claim as amended: the assertion fails at that row and the exception
\* leaves the parser: no list is returned, nor the rows parsed before it
C10_ShortRefIdAbortsTheStatement ==
    ShortRefIdRow =>
        /\ pc = "raised"
        /\ exc = "AssertionError"
        /\ Transform(parser, lines).transactions = <<>>
        /\ ~ENABLED Next

\* the assertion failed after a transaction had been appended
C10_Witness ==
    /\ ShortRefIdRow
    /\ pc = "raised"
    /\ Len(transactions) >= 1

(***************************************************************************)
(* C11.  Row-level recovery from an unparsable date: a pass of a row loop  *)
(* over a row that reaches the date parsing with a date fragment the       *)
(* format's pattern does not parse drops the row with a warning and the    *)
(* loop goes on; the transactions collected so far are kept.               *)
(***************************************************************************)
\* the line is a row whose date the parser tries to parse, and cannot
HasUnparsableDate(line) ==
    IF parser \in HdfcParsers
    THEN LET r == MergeNarration(FilterBlank(line), num_cols)
         IN  FilterBlank(line) # <<>> /\ Len(r) = 7 /\ ~StrpDateOk(Strip(r[1]))
    ELSE /\ parser = "icici"
         /\ ~IciciSkipsRow(line)
         /\ ~StrpCompactDateOk(Remove(Strip(line[3]), <<",">>))

C11_UnparsableDateDropsOnlyTheRow ==
    [][(pc = "rows" /\ pos < Len(lines) /\ HasUnparsableDate(lines[pos + 1]))
       => /\ pc' = "rows"
          /\ exc' = "none"
          /\ transactions' = transactions
          /\ warnings' = warnings + 1]_vars

(***************************************************************************)
(* C12.  Amount validity: every transaction a parser has collected has a   *)
(* finite amount (not NaN, not infinite), whatever the text of the amount  *)
(* fields of its row.                                                      *)
(***************************************************************************)
C12_AmountsAreFinite ==
    \A i \in 1..Len(transactions) : IsFinite(transactions[i].amount)

(***************************************************************************)
(* C13.  Order preservation: the transactions a parser has collected are a *)
(* subsequence of the rows its loop has read, in the order of the rows:    *)
(* there is a strictly increasing assignment of the transactions to rows,  *)
(* each transaction carrying the narration and the date of its row (and    *)
(* its closing balance in format A, its reference in format B).  No row    *)
(* gives two transactions and none is moved.  (In format C the rows are    *)
(* those of the deduplicated union of the tables.)                         *)
(***************************************************************************)
\* the transaction t carries the fields of the line
ComesFrom(t, line) ==
    IF parser \in HdfcParsers
    THEN LET r == MergeNarration(FilterBlank(line), num_cols)
         IN  /\ Len(r) = 7
             /\ t.narration = Strip(r[2])
             /\ StrpDateOk(Strip(r[1])) /\ t.date = StrpDate(Strip(r[1]))
             /\ FloatOk(Strip(r[7])) /\ t.closing_balance = FloatOf(Strip(r[7]))
    ELSE IF parser = "icici"
    THEN /\ Len(line) >= 9
         /\ t.narration = Strip(line[4])
         /\ t.ref_id = Text(Strip(line[9]))
         /\ StrpCompactDateOk(Remove(Strip(line[3]), <<",">>))
         /\ t.date = StrpCompactDate(Remove(Strip(line[3]), <<",">>))
    ELSE /\ Len(line) >= 3
         /\ line[1] # NaNCell /\ line[2] # NaNCell
         /\ t.narration = Strip(line[2])
         /\ StrpSlashDateOk(Split(Strip(line[1]), " ")[1])
         /\ t.date = StrpSlashDate(Split(Strip(line[1]), " ")[1])

RECURSIVE IsSubsequenceOfRows(_, _)
IsSubsequenceOfRows(ts, ls) ==
    \/ ts = <<>>
    \/ /\ ls # <<>>
       /\ \/ ComesFrom(Head(ts), Head(ls)) /\ IsSubsequenceOfRows(Tail(ts), Tail(ls))
          \/ IsSubsequenceOfRows(ts, Tail(ls))

\* the rows the parser's loop has read so far
RowsRead ==
    IF parser = "hdfc_cc" THEN SubSeq(combined_df, 1, pos)
    ELSE SubSeq(lines, 1, pos)

C13_TransactionsFollowRowOrder == IsSubsequenceOfRows(transactions, RowsRead)

\* a finished parse returned two different transactions
C13_Witness ==
    /\ pc = "returned"
    /\ Len(transactions) = 2
    /\ transactions[1] # transactions[2]

(***************************************************************************)
(* C14.  Format B, section not found: when no row of the text has a second *)
(* field that, trimmed, is "Transaction Details" (the preamble may hold    *)
(* empty rows and rows of one field), or when the marker row is the last   *)
(* row, the parser returns no transaction and does not raise.              *)
(***************************************************************************)
\* the row's second field, trimmed, is the section marker
HasMarkerField(r) == Len(r) >= 2 /\ Strip(r[2]) = TransactionDetails

NoMarkerRow == \A i \in 1..Len(lines) : ~HasMarkerField(lines[i])

MarkerRowIsLast ==
    /\ lines # <<>>
    /\ HasMarkerField(lines[Len(lines)])
    /\ \A i \in 1..(Len(lines) - 1) : ~HasMarkerField(lines[i])

C14_NoSectionGivesNoTransactions ==
    (parser = "icici" /\ Ended /\ (NoMarkerRow \/ MarkerRowIsLast))
    => (pc = "returned" /\ transactions = <<>>)

(***************************************************************************)
(* C15.  Format B section scan: the scan stops at the first row whose      *)
(* trimmed second field is "Transaction Details", one row is skipped after *)
(* it, and every later row is a data row.  No transaction exists before    *)
(* the skip is done; the transactions are, in order, those of rows after   *)
(* the skipped one; and a parse that returns has one transaction for every *)
(* later row that is a complete data row.                                  *)
(***************************************************************************)
\* index of the first marker row, 0 if there is none
FirstMarker ==
    IF NoMarkerRow THEN 0
    ELSE CHOOSE i \in 1..Len(lines) :
             /\ HasMarkerField(lines[i])
             /\ \A j \in 1..(i - 1) : ~HasMarkerField(lines[j])

\* index of the first row that may give a transaction
FirstDataRow == IF FirstMarker = 0 THEN Len(lines) + 1 ELSE FirstMarker + 2

\* a complete data row: 9 fields or more, a date and an amount that parse
CompleteDataRow(r) ==
    /\ Len(r) >= 9
    /\ StrpCompactDateOk(Remove(Strip(r[3]), <<",">>))
    /\ Strip(r[7]) # <<>>
    /\ FloatOk(IciciCleanAmount(Strip(r[7])))

C15_ScanStopsAtFirstMarker ==
    parser = "icici" =>
        /\ pc \in {"scan", "skip_headers"} => transactions = <<>>
        /\ pc = "skip_headers" => pos = FirstMarker
        /\ IsSubsequenceOfRows(transactions, SubSeq(lines, FirstDataRow, pos))
        /\ pc = "returned" =>
               Len(transactions) =
                   Cardinality({i \in FirstDataRow..Len(lines) :
                                    CompleteDataRow(lines[i])})

\* a parse returned one transaction from a text with a data row before the
\* marker row and a second marker row after the column headers
C15_Witness ==
    /\ parser = "icici"
    /\ pc = "returned"
    /\ FirstMarker = 2
    /\ CompleteDataRow(lines[1])
    /\ \E i \in 4..Len(lines) : HasMarkerField(lines[i])
    /\ Len(transactions) = 1

(***************************************************************************)
(* C16.  Format B row skipping, for a pass of the data-row loop: a row     *)
(* with fewer than 9 fields, or whose date field is empty or only blanks,  *)
(* or whose amount field is empty, is skipped (nothing is raised, the      *)
(* transactions are unchanged and the loop goes on); every row with 9      *)
(* fields or more, a non-empty date field and a non-empty amount field     *)
(* gives exactly one transaction.                                          *)
(***************************************************************************)
\* a row the format says is skipped
SkippableRow(r) ==
    \/ Len(r) < 9
    \/ Strip(r[3]) = <<>>
    \/ Strip(r[7]) = <<>>

C16_SkippedAndYieldingRows ==
    [][(parser = "icici" /\ pc = "rows" /\ pos < Len(lines))
       => /\ exc' = "none" /\ pc' = "rows"
          /\ IF SkippableRow(lines[pos + 1])
             THEN transactions' = transactions
             ELSE Len(transactions') = Len(transactions) + 1]_vars

(***************************************************************************)
(* C17.  Card-statement sign convention, for a pass that appends a         *)
(* transaction.  The magnitude is the number parsed from the amount text   *)
(* with the thousands separators and the marker removed.  Format B: the    *)
(* amount is minus the magnitude when the field carries "Dr.", and the     *)
(* magnitude when it carries no marker or the credit marker.  Format C:    *)
(* the amount is the magnitude when the cell carries "Cr", and minus the   *)
(* magnitude otherwise.  So, for a magnitude above zero, the amount is     *)
(* negative exactly for a debit.                                           *)
(***************************************************************************)
\* the number in a format-B amount field
MagnitudeB(field) ==
    FloatOf(Remove(Remove(Remove(Strip(field), <<",">>), <<" ","D","r",".">>),
                   <<" ","C","r",".">>))

\* the number in a format-C amount cell
MagnitudeC(cell) == FloatOf(Strip(Remove(Remove(Strip(cell), <<",">>), CrMarker)))

\* the amount of a debit or of a credit of magnitude m
SignedAmount(m, is_debit) ==
    IF m = NaN THEN NaN ELSE IF is_debit THEN -m ELSE m

\* the last transaction of a list
Last(ts) == ts[Len(ts)]

C17_CardSignConvention ==
    [][/\ (parser = "icici" /\ pc = "rows" /\ transactions' # transactions)
          => LET field == lines[pos + 1][7]
                 is_debit == Contains(field, DrMarker)
                 m == MagnitudeB(field)
             IN  /\ Last(transactions').amount = SignedAmount(m, is_debit)
                 /\ (m > 0 /\ m # NaN) =>
                        (Last(transactions').amount < 0 <=> is_debit)
       /\ (parser = "hdfc_cc" /\ pc = "rows" /\ transactions' # transactions)
          => LET cell == CcAmountCell(combined_df[pos + 1])
                 is_debit == ~Contains(cell, CrMarker)
                 m == MagnitudeC(cell)
             IN  /\ Last(transactions').amount = SignedAmount(m, is_debit)
                 /\ (m > 0 /\ m # NaN) =>
                        (Last(transactions').amount > 0 <=> ~is_debit)]_vars

\* a format-B parse returned a debit and then a credit
C17_Witness ==
    /\ parser = "icici"
    /\ pc = "returned"
    /\ Len(transactions) = 2
    /\ Contains(lines[Len(lines) - 1][7], DrMarker) /\ transactions[1].amount < 0
    /\ ~Contains(lines[Len(lines)][7], DrMarker) /\ transactions[2].amount > 0

(***************************************************************************)
(* C18.  Format C, section not found: when neither flavor returns a table  *)
(* whose first row contains "Domestic Transactions" and that has rows      *)
(* after the discarded ones, the parser returns the empty list, with one   *)
(* warning, and raises nothing.                                            *)
(***************************************************************************)
\* a table of the domestic-transactions section that has data rows
QualifyingTable(t) ==
    /\ t # <<>>
    /\ Contains(JoinCells(t[1]), DomesticTransactions)
    /\ Len(t) > HeaderRowsSkipped

NoQualifyingTable ==
    /\ \A i \in 1..Len(tables_lattice) : ~QualifyingTable(tables_lattice[i])
    /\ \A i \in 1..Len(tables_stream) : ~QualifyingTable(tables_stream[i])

\* both extraction calls have returned their tables
Extracted ==
    /\ pc \notin {"temp_file", "read_lattice", "read_stream"}
    /\ exc # "PdfReadError"

C18_NoDomesticTableGivesEmptyList ==
    (parser = "hdfc_cc" /\ Extracted /\ NoQualifyingTable)
    => /\ pc \in {"tables", "returned"}
       /\ transactions = <<>>
       /\ exc = "none"
       /\ pc = "returned" => warnings = 1

\* the parse of a document with tables, none of which qualifies, has returned
C18_Witness ==
    /\ parser = "hdfc_cc"
    /\ pc = "returned"
    /\ tables_lattice # <<>> /\ tables_stream # <<>>
    /\ NoQualifyingTable
    /\ warnings = 1

(***************************************************************************)
(* C19.  Format C data rows: of the rows that follow the first 4 rows of   *)
(* the qualifying tables of both flavors, taken once each (a row both      *)
(* flavors found is one row), every row with at least 3 cells gives one    *)
(* transaction; also when one row remains.  Stated for a parse that        *)
(* returns: the number of transactions is the number of such rows.         *)
(***************************************************************************)
\* the rows after the discarded ones, of the qualifying tables of a list
DataRowsOf(tables) ==
    UNION {{tables[i][j] : j \in (HeaderRowsSkipped + 1)..Len(tables[i])} :
               i \in {k \in 1..Len(tables) : QualifyingTable(tables[k])}}

\* the union of what the two flavors found, each row once
UnionOfDataRows == DataRowsOf(tables_lattice) \cup DataRowsOf(tables_stream)

C19_EveryDataRowYieldsOne ==
    (parser = "hdfc_cc" /\ pc = "returned" /\ ~NoQualifyingTable)
    => Len(transactions) = Cardinality({r \in UnionOfDataRows : Len(r) >= 3})

(***************************************************************************)
(* C20.  Format C amount cell: for a pass that appends the transaction of  *)
(* a data row with c cells, the amount is the one read from the last cell  *)
(* when c >= 4 (for every such c) and from the third cell when c = 3.      *)
(***************************************************************************)
\* the cells of a row of combined_df that the row's table had
OwnCells(r) == SelectSeq(r, LAMBDA cell : cell # NaNCell)

\* the cell the format names as the amount cell
ClaimedAmountCell(r) ==
    IF Len(OwnCells(r)) >= 4 THEN Last(OwnCells(r)) ELSE OwnCells(r)[3]

C20_AmountFromLastCell ==
    [][(parser = "hdfc_cc" /\ pc = "rows" /\ transactions' # transactions)
       => LET cell == ClaimedAmountCell(combined_df[pos + 1])
          IN  /\ FloatOk(Strip(Remove(Remove(Strip(cell), <<",">>), CrMarker)))
              /\ Last(transactions').amount =
                     SignedAmount(MagnitudeC(cell), ~Contains(cell, CrMarker))]_vars

(***************************************************************************)
(* C21.  One synthesis rule for formats A and C: every transaction of the  *)
(* format-C parser has a synthesized reference id, which is the id         *)
(* bank_statement_transformer's format-A parser gives a zero-reference row *)
(* of the same date, signed amount and narration; and two transactions of  *)
(* one parse with the same date, amount and narration have the same id.    *)
(***************************************************************************)
\* the id format A synthesizes for a row whose reference field is 0
FormatAZeroRefId(t) ==
    CleanedRefId("bst", <<"0">>, t.date, t.amount, t.narration)

C21_FormatCSynthesisIsFormatA ==
    parser = "hdfc_cc" =>
        /\ \A i \in 1..Len(transactions) :
               /\ transactions[i].ref_id.kind = "sha256"
               /\ transactions[i].ref_id = FormatAZeroRefId(transactions[i])
        /\ \A i, j \in 1..Len(transactions) :
               (/\ transactions[i].date = transactions[j].date
                /\ transactions[i].amount = transactions[j].amount
                /\ transactions[i].narration = transactions[j].narration)
               => transactions[i].ref_id = transactions[j].ref_id

\* a format-C parse returned a debit and a credit
C21_Witness ==
    /\ parser = "hdfc_cc"
    /\ pc = "returned"
    /\ Len(transactions) = 2
    /\ transactions[1].amount < 0 /\ transactions[2].amount > 0

(***************************************************************************)
(* C28.  Cross-importer reference-id stability: for every row that comes   *)
(* to 7 fields and whose trimmed reference field is "0" or all zeros, the  *)
(* actual_budget_importer parser and the bank_statement_transformer parser *)
(* treat the row alike and give its transaction the same reference id.     *)
(***************************************************************************)
C28_SameZeroRefIdInBothParsers ==
    [][(/\ parser \in HdfcParsers
        /\ pc = "rows"
        /\ pos' = pos + 1
        /\ Len(row') = 7
        /\ AllZeros(Strip(row'[6])))
       => LET abi == HdfcRow("abi", num_cols, lines[pos'])
              bst == HdfcRow("bst", num_cols, lines[pos'])
          IN  /\ abi.kind = bst.kind
              /\ abi.kind = "append" => abi.txn.ref_id = bst.txn.ref_id]_vars

(***************************************************************************)
(* C29.  Format C write-before-read ordering: whenever one of the two      *)
(* extraction calls is about to read the temporary file by its path, all   *)
(* the bytes of the document are in the file and none is left in the       *)
(* writer's buffer, whatever the document's size.                          *)
(***************************************************************************)
C29_DocumentWrittenBeforeExtraction ==
    (parser = "hdfc_cc" /\ pc \in {"read_lattice", "read_stream"})
    => on_disk = file_size /\ buffered = 0

(***************************************************************************)
(* The payee functions on their own: one call of one function on one       *)
(* narration.  A narration is made of up to MaxSegments segments joined by *)
(* "-" or by ",".                                                          *)
(***************************************************************************)
MaxSegments == 3

NarrationSegments ==
    {<<"U","P","I">>, <<"U","p","i">>, <<"N","E","F","T"," ","D","R">>,
     <<"r","t","g","s">>, <<"A","T","M"," ","W","i","t","h","d","r","a","w","a","l">>,
     <<>>, <<" ","J","o","h","n"," ","D","o","e"," ">>, <<"A",","," ","B"," ">>}

\* sep.join(parts)
RECURSIVE Join(_, _)
Join(parts, sep) ==
    IF parts = <<>> THEN <<>>
    ELSE IF Len(parts) = 1 THEN parts[1]
    ELSE parts[1] \o <<sep>> \o Join(Tail(parts), sep)

Narrations ==
    {Join(p, sep) : p \in SeqsUpTo(NarrationSegments, MaxSegments) \ {<<>>},
                    sep \in {"-", ","}}

PayeeInit ==
    /\ payee_extractor \in PayeeExtractors
    /\ narration \in {Str(n) : n \in Narrations}
           \cup (IF payee_extractor = "extract_payee_from_icici_credit_card_narration"
                 THEN {None} ELSE {})
    /\ payee = None
    /\ pc = "call"
    /\ parser = "none"
    /\ lines = <<>>
    /\ file_size = 0 /\ buffered = 0 /\ on_disk = 0
    /\ tables_lattice = <<>> /\ tables_stream = <<>> /\ combined_df = <<>>
    /\ pos = 0 /\ num_cols = 0 /\ row = <<>>
    /\ transactions = <<>> /\ warnings = 0 /\ exc = "none"
    /\ app = "none" /\ data_source = "" /\ invoked = <<>> /\ df = <<>>
    /\ received = FALSE /\ error = <<>>
    /\ submitted = <<>> /\ session = {} /\ ledger = {}
    /\ commits = 0 /\ imports = 0

\* the call of payee_extractor on narration returns
Extract(f) ==
    /\ payee_extractor = f
    /\ pc = "call"
    /\ payee' = ApplyPayeeExtractor(f, narration)
    /\ pc' = "returned"
    /\ UNCHANGED <<payee_extractor, narration, caller_vars, parser_vars,
                   transactions, exc>>

ExtractHdfc == Extract("extract_payee_from_hdfc_bank_statement_narration")

ExtractHdfcAbi == Extract("abi.extract_payee_from_hdfc_bank_statement_narration")

ExtractIcici == Extract("extract_payee_from_icici_credit_card_narration")

ExtractHdfcCreditCard == Extract("extract_payee_from_hdfc_credit_card_narration")

PayeeNext ==
    \/ ExtractHdfc
    \/ ExtractHdfcAbi
    \/ ExtractIcici
    \/ ExtractHdfcCreditCard

PayeeSpec == PayeeInit /\ [][PayeeNext]_vars

(***************************************************************************)
(* C22.  Format A payee: for a narration that begins, in any letter case,  *)
(* with "upi-" the payee is the second hyphen-delimited segment, trimmed;  *)
(* for one that begins with "neft" or "rtgs" it is the third segment,      *)
(* trimmed, when the narration has at least 3 segments, and "no payee"     *)
(* otherwise; the call returns for every narration.                        *)
(***************************************************************************)
HdfcPayeeExtractors ==
    {"extract_payee_from_hdfc_bank_statement_narration",
     "abi.extract_payee_from_hdfc_bank_statement_narration"}

\* the call of a format-A payee function has ended
HdfcPayeeCallEnded ==
    /\ payee_extractor \in HdfcPayeeExtractors
    /\ app = "none"
    /\ pc # "call"

\* the hyphen-delimited segments of the narration
Segments == Split(narration.text, "-")

BeginsWith(prefix) == StartsWith(Lower(narration.text), prefix)

\* "no payee": the absent value, or the empty string of actual_budget_importer
NoPayee(p) == p \in {None, Str(<<>>)}

C22_FormatAPayee ==
    HdfcPayeeCallEnded =>
        /\ pc = "returned"
        /\ BeginsWith(UpiDash) =>
               Len(Segments) >= 2 /\ payee = Str(Strip(Segments[2]))
        /\ (BeginsWith(Neft) \/ BeginsWith(Rtgs)) =>
               IF Len(Segments) >= 3 THEN payee = Str(Strip(Segments[3]))
               ELSE NoPayee(payee)

\* a mixed-case "Upi-" narration and a "NEFT DR" narration of 3 segments gave
\* a trimmed name; this one is the latter
C22_Witness ==
    /\ HdfcPayeeCallEnded
    /\ BeginsWith(Neft)
    /\ Len(Segments) = 3
    /\ Segments[3] = <<" ","J","o","h","n"," ","D","o","e"," ">>
    /\ payee = Str(<<"J","o","h","n"," ","D","o","e">>)

\* a mixed-case "Upi-" narration gave its second segment
C22_MixedCaseUpi ==
    /\ HdfcPayeeCallEnded
    /\ StartsWith(narration.text, <<"U","p","i","-">>)
    /\ payee = Str(<<"J","o","h","n"," ","D","o","e">>)

(***************************************************************************)
(* C23.  No-match result of the format-A payee function of                 *)
(* bank_statement_transformer: for "ATM Withdrawal" and for the empty      *)
(* narration the function returns the empty string.                        *)
(***************************************************************************)
AtmWithdrawal == <<"A","T","M"," ","W","i","t","h","d","r","a","w","a","l">>

C23_NoMatchIsEmptyString ==
    (/\ payee_extractor = "extract_payee_from_hdfc_bank_statement_narration"
     /\ app = "none"
     /\ pc = "returned"
     /\ narration.text \in {AtmWithdrawal, <<>>})
    => payee = Str(<<>>)

(***************************************************************************)
(* C24.  Format B payee: for a non-empty narration the payee is the text   *)
(* before the first comma, trimmed (the whole narration, trimmed, when it  *)
(* holds no comma); for an empty or absent narration it is "no payee";     *)
(* the call returns for every narration.                                   *)
(***************************************************************************)
BeforeFirstComma(s) ==
    IF FirstIndex(s, ",") = 0 THEN s ELSE SubSeq(s, 1, FirstIndex(s, ",") - 1)

C24_FormatBPayee ==
    (/\ payee_extractor = "extract_payee_from_icici_credit_card_narration"
     /\ app = "none"
     /\ pc # "call")
    => /\ pc = "returned"
       /\ IF narration = None \/ narration.text = <<>>
          THEN payee = None
          ELSE payee = Str(Strip(BeforeFirstComma(narration.text)))

\* a narration with a comma gave the trimmed text before it
C24_Witness ==
    /\ payee_extractor = "extract_payee_from_icici_credit_card_narration"
    /\ app = "none"
    /\ pc = "returned"
    /\ StartsWith(narration.text, <<" ","J","o","h","n"," ","D","o","e"," ",",">>)
    /\ payee = Str(<<"J","o","h","n"," ","D","o","e">>)

(***************************************************************************)
(* main() of the two programs: the uploaded statement is dispatched on the *)
(* source tag, parsed, and then shown (bank_statement_transformer) or      *)
(* submitted to the ledger (actual_budget_importer).  A parser call is one *)
(* step here; its own steps are those of Spec.                             *)
(***************************************************************************)
MaxImports == 2

\* FileSource of bank_statement_transformer/main.py
HDFC_CSV_EXPORT_FROM_WEB == "HDFC CSV Export from HDFC Netbanking web portal"

ICICI_CREDIT_CARD_STATEMENT == "ICICI Credit Card Statement CSV"

HDFC_CREDIT_CARD_STATEMENT_PDF == "HDFC Credit Card Statement PDF"

\* the one tag of actual_budget_importer
HDFC_CSV_EXPORT == "HDFC CSV Export"

\* a tag neither program knows
OtherTag == "SBI CSV Export"

DataSources ==
    {HDFC_CSV_EXPORT_FROM_WEB, ICICI_CREDIT_CARD_STATEMENT,
     HDFC_CREDIT_CARD_STATEMENT_PDF, HDFC_CSV_EXPORT, OtherTag}

Apps == {"bank_statement_transformer", "actual_budget_importer"}

\* the uploaded files: statements that open as their format does
BstUploads == {<<EmptyLine, HeaderLine>> \o r : r \in SeqsUpTo(ARows, MaxRows)}

AbiUploads == {<<HeaderLine>> \o r : r \in SeqsUpTo(ARows, MaxRows)}

IciciUploads ==
    {<<BPreambleRow, BMarkerRow, BColumnHeaderRow>> \o r :
        r \in SeqsUpTo(BRows, MaxRows)}

\* f"Unsupported data source: {data_source}"
UnsupportedDataSource(tag) == <<"Unsupported data source: ", tag>>

\* the message without the tag
UnsupportedDataSourceUnnamed(tag) == <<"Unsupported data source">>

\* str(e) of the ValueError of the dispatcher's else branch
DispatchError(tag) == UnsupportedDataSource(tag)

\* transactions_to_df: one row per transaction, with the payee of its narration
TransactionsToDf(ts, f) ==
    [i \in 1..Len(ts) |->
        [Date |-> ts[i].date,
         Amount |-> ts[i].amount,
         Payee |-> IF f = "none" THEN None
                   ELSE ApplyPayeeExtractor(f, Str(ts[i].narration)),
         Description |-> ts[i].narration,
         Reference |-> ts[i].ref_id,
         ClosingBalance |-> ts[i].closing_balance]]

\* the arguments of one reconcile_transaction call
ReconcileCall(t) ==
    [imported_id |-> t.ref_id,
     amount |-> t.amount,
     date |-> t.date,
     payee |-> abi_extract_payee_from_hdfc_bank_statement_narration(t.narration),
     notes |-> t.narration]

\* reconcile_transaction on a ledger that upserts by imported_id
Reconcile(s, call) ==
    {e \in s : e.imported_id # call.imported_id} \cup {call}

MainInit ==
    /\ app \in Apps
    /\ data_source \in DataSources
    /\ lines \in
         (IF app = "actual_budget_importer"
          THEN (IF data_source = HDFC_CSV_EXPORT THEN AbiUploads
                ELSE {<<HeaderLine, SampleRow>>})
          ELSE IF data_source = HDFC_CSV_EXPORT_FROM_WEB THEN BstUploads
          ELSE IF data_source = ICICI_CREDIT_CARD_STATEMENT THEN IciciUploads
          ELSE IF data_source = HDFC_CREDIT_CARD_STATEMENT_PDF THEN {<<>>}
          ELSE {<<EmptyLine, HeaderLine, SampleRow>>})
    /\ file_size \in
         (IF app = "bank_statement_transformer"
             /\ data_source = HDFC_CREDIT_CARD_STATEMENT_PDF
          THEN FileSizes ELSE {0})
    /\ pc = "main"
    /\ parser = "none"
    /\ buffered = 0 /\ on_disk = 0
    /\ tables_lattice = <<>> /\ tables_stream = <<>> /\ combined_df = <<>>
    /\ pos = 0 /\ num_cols = 0 /\ row = <<>>
    /\ transactions = <<>> /\ warnings = 0 /\ exc = "none"
    /\ payee_extractor = "none" /\ narration = Str(<<>>) /\ payee = None
    /\ invoked = <<>> /\ received = FALSE /\ error = <<>> /\ df = <<>>
    /\ submitted = <<>> /\ session = {} /\ ledger = {}
    /\ commits = 0 /\ imports = 0

\* what main() leaves alone in every step: the parser's own state
main_fixed ==
    <<parser, lines, combined_df, pos, num_cols, row, buffered, on_disk,
      file_size, narration, payee, app, data_source>>

\* the parser call that binds the list even when f raises
InvokeBindingAlways(f, payload, res) ==
    /\ invoked' = Append(invoked, [parser |-> f, payload |-> payload])
    /\ warnings' = warnings + res.warnings
    /\ transactions' = res.transactions
    /\ received' = TRUE
    /\ exc' = res.exc
    /\ error' = IF res.status = "returned" THEN error ELSE <<res.exc>>

\* the parser call `transactions = f(payload)`, with res what f(payload)
\* comes to: the list is bound if f
\* returns; an exception of f leaves main (bank_statement_transformer shows
\* it with st.error and raises it again)
Invoke(f, payload, res) ==
    /\ invoked' = Append(invoked, [parser |-> f, payload |-> payload])
    /\ warnings' = warnings + res.warnings
    /\ IF res.status = "returned"
       THEN /\ transactions' = res.transactions
            /\ received' = TRUE
            /\ UNCHANGED <<exc, error>>
       ELSE /\ exc' = res.exc
            /\ error' = <<res.exc>>
            /\ UNCHANGED <<transactions, received>>

\* bank_statement_transformer: the branch of FileSource.HDFC_CSV_EXPORT_FROM_WEB
BstHdfcCsv ==
    /\ app = "bank_statement_transformer"
    /\ pc = "main"
    /\ data_source = HDFC_CSV_EXPORT_FROM_WEB
    /\ payee_extractor' = "extract_payee_from_hdfc_bank_statement_narration"
    /\ \E res \in {transform_hdfc_csv_to_transactions("bst", lines)} :
           /\ Invoke("transform_hdfc_csv_to_transactions", "text", res)
           /\ pc' = IF res.status = "returned" THEN "parsed" ELSE "raised"
    /\ UNCHANGED main_fixed
    /\ UNCHANGED <<tables_lattice, tables_stream, df, submitted, session,
                   ledger, commits, imports>>

\* bank_statement_transformer: the branch of ICICI_CREDIT_CARD_STATEMENT
BstIciciCsv ==
    /\ app = "bank_statement_transformer"
    /\ pc = "main"
    /\ data_source = ICICI_CREDIT_CARD_STATEMENT
    /\ payee_extractor' = "extract_payee_from_icici_credit_card_narration"
    /\ \E res \in
           {transform_icici_credit_card_statement_csv_to_transactions(lines)} :
           /\ Invoke("transform_icici_credit_card_statement_csv_to_transactions",
                     "text", res)
           /\ pc' = IF res.status = "returned" THEN "parsed" ELSE "raised"
    /\ UNCHANGED main_fixed
    /\ UNCHANGED <<tables_lattice, tables_stream, df, submitted, session,
                   ledger, commits, imports>>

\* bank_statement_transformer: the branch of HDFC_CREDIT_CARD_STATEMENT_PDF;
\* the tables are what camelot finds in the uploaded document
BstHdfcPdf ==
    /\ app = "bank_statement_transformer"
    /\ pc = "main"
    /\ data_source = HDFC_CREDIT_CARD_STATEMENT_PDF
    /\ payee_extractor' = "extract_payee_from_hdfc_credit_card_narration"
    /\ \E lattice \in TableLists, stream \in TableLists :
         \E res \in {ParsePdf(file_size, lattice, stream)} :
             /\ tables_lattice' = (IF res.exc = "PdfReadError" THEN <<>> ELSE lattice)
             /\ tables_stream' = (IF res.exc = "PdfReadError" THEN <<>> ELSE stream)
             /\ Invoke("transform_hdfc_credit_card_statement_to_transactions",
                       "bytes", res)
             /\ pc' = IF res.status = "returned" THEN "parsed" ELSE "raised"
    /\ UNCHANGED main_fixed
    /\ UNCHANGED <<df, submitted, session, ledger, commits, imports>>

\* bank_statement_transformer: the else branch
BstUnsupported ==
    /\ app = "bank_statement_transformer"
    /\ pc = "main"
    /\ data_source \notin {HDFC_CSV_EXPORT_FROM_WEB, ICICI_CREDIT_CARD_STATEMENT,
                           HDFC_CREDIT_CARD_STATEMENT_PDF}
    /\ pc' = "raised"
    /\ exc' = "ValueError"
    /\ error' = DispatchError(data_source)
    /\ UNCHANGED main_fixed
    /\ UNCHANGED <<tables_lattice, tables_stream, transactions, warnings,
                   payee_extractor, invoked, received, df, submitted, session,
                   ledger, commits, imports>>

\* bank_statement_transformer: st.dataframe(transactions_to_df(transactions,
\* payee_extractor=payee_extractor))
BstShow ==
    /\ app = "bank_statement_transformer"
    /\ pc = "parsed"
    /\ df' = TransactionsToDf(transactions, payee_extractor)
    /\ pc' = "done"
    /\ UNCHANGED main_fixed
    /\ UNCHANGED <<tables_lattice, tables_stream, transactions, warnings, exc,
                   payee_extractor, invoked, received, error, submitted,
                   session, ledger, commits, imports>>

\* actual_budget_importer: the branch of "HDFC CSV Export"; when the parser
\* has returned, the budget is downloaded into a new session
AbiHdfcCsv ==
    /\ app = "actual_budget_importer"
    /\ pc = "main"
    /\ data_source = HDFC_CSV_EXPORT
    /\ \E res \in {transform_hdfc_csv_to_transactions("abi", lines)} :
           /\ Invoke("transform_hdfc_csv_to_transactions", "text", res)
           /\ pc' = IF res.status = "returned" THEN "upsert" ELSE "raised"
           /\ session' = IF res.status = "returned" THEN ledger ELSE session
    /\ UNCHANGED main_fixed
    /\ UNCHANGED <<tables_lattice, tables_stream, payee_extractor, df,
                   submitted, ledger, commits, imports>>

\* actual_budget_importer: the else branch
AbiUnsupported ==
    /\ app = "actual_budget_importer"
    /\ pc = "main"
    /\ data_source # HDFC_CSV_EXPORT
    /\ pc' = "raised"
    /\ exc' = "ValueError"
    /\ error' = DispatchError(data_source)
    /\ UNCHANGED main_fixed
    /\ UNCHANGED <<tables_lattice, tables_stream, transactions, warnings,
                   payee_extractor, invoked, received, df, submitted, session,
                   ledger, commits, imports>>

\* upsert_transactions_to_actual: the reconcile call of the loop's next pass,
\* put before the calls already made
AbiReconcileNewestFirst ==
    /\ app = "actual_budget_importer"
    /\ pc = "upsert"
    /\ Len(submitted) < Len(transactions)
    /\ LET call == ReconcileCall(transactions[Len(submitted) + 1])
       IN  /\ submitted' = <<call>> \o submitted
           /\ session' = Reconcile(session, call)
    /\ UNCHANGED main_fixed
    /\ UNCHANGED <<tables_lattice, tables_stream, transactions, warnings, exc,
                   payee_extractor, invoked, received, error, df, ledger,
                   commits, imports, pc>>

\* upsert_transactions_to_actual: one pass of the loop, whose
\* reconcile_transaction call returns
AbiReconcile ==
    /\ app = "actual_budget_importer"
    /\ pc = "upsert"
    /\ Len(submitted) < Len(transactions)
    /\ LET call == ReconcileCall(transactions[Len(submitted) + 1])
       IN  /\ submitted' = Append(submitted, call)
           /\ session' = Reconcile(session, call)
    /\ UNCHANGED main_fixed
    /\ UNCHANGED <<tables_lattice, tables_stream, transactions, warnings, exc,
                   payee_extractor, invoked, received, error, df, ledger,
                   commits, imports, pc>>

\* upsert_transactions_to_actual: one pass of the loop, whose
\* reconcile_transaction call raises; the exception leaves the loop, the
\* with block (which closes the session) and main
AbiReconcileRaises ==
    /\ app = "actual_budget_importer"
    /\ pc = "upsert"
    /\ Len(submitted) < Len(transactions)
    /\ submitted' =
           Append(submitted, ReconcileCall(transactions[Len(submitted) + 1]))
    /\ session' = {}
    /\ pc' = "raised"
    /\ exc' = "ActualError"
    /\ error' = <<"ActualError">>
    /\ UNCHANGED main_fixed
    /\ UNCHANGED <<tables_lattice, tables_stream, transactions, warnings,
                   payee_extractor, invoked, received, df, ledger, commits,
                   imports>>

\* the loop is over: actual.commit(), the with block ends, and the imported
\* transactions are shown
AbiCommit ==
    /\ app = "actual_budget_importer"
    /\ pc = "upsert"
    /\ Len(submitted) = Len(transactions)
    /\ commits' = commits + 1
    /\ ledger' = session
    /\ session' = {}
    /\ df' = TransactionsToDf(transactions, "none")
    /\ imports' = imports + 1
    /\ pc' = "imported"
    /\ UNCHANGED main_fixed
    /\ UNCHANGED <<tables_lattice, tables_stream, transactions, warnings, exc,
                   payee_extractor, invoked, received, error, submitted>>

\* the same file is submitted again: main() runs anew on the ledger as the
\* last import left it
AbiImportAgain ==
    /\ app = "actual_budget_importer"
    /\ pc = "imported"
    /\ imports < MaxImports
    /\ pc' = "main"
    /\ transactions' = <<>>
    /\ received' = FALSE
    /\ invoked' = <<>>
    /\ submitted' = <<>>
    /\ commits' = 0
    /\ warnings' = 0
    /\ df' = <<>>
    /\ UNCHANGED main_fixed
    /\ UNCHANGED <<tables_lattice, tables_stream, exc, payee_extractor, error,
                   session, ledger, imports>>

MainNext ==
    \/ BstHdfcCsv
    \/ BstIciciCsv
    \/ BstHdfcPdf
    \/ BstUnsupported
    \/ BstShow
    \/ AbiHdfcCsv
    \/ AbiUnsupported
    \/ AbiReconcile
    \/ AbiReconcileRaises
    \/ AbiCommit
    \/ AbiImportAgain

MainSpec == MainInit /\ [][MainNext]_vars

\* the shape of main's state
MainTypeOK ==
    /\ app \in Apps
    /\ received \in BOOLEAN
    /\ commits \in 0..1
    /\ imports \in 0..MaxImports
    /\ received => exc \in {"none", "ActualError"}

(***************************************************************************)
(* C25.  Format dispatcher: once main has dispatched, a supported tag has  *)
(* led to exactly one parser call, the one of the tag's format, with the   *)
(* decoded text for formats A and B and the raw bytes for format C, and    *)
(* the rows shown carry the payee of that format's heuristic; any other    *)
(* tag has led to a ValueError whose message is "Unsupported data source:" *)
(* followed by the tag, and to no parser call.                             *)
(***************************************************************************)
\* the parser, the payload and the payee heuristic of each supported tag
Dispatch(a, tag) ==
    IF a = "actual_budget_importer"
    THEN (IF tag = HDFC_CSV_EXPORT
          THEN [parser |-> "transform_hdfc_csv_to_transactions",
                payload |-> "text", payee |-> "none"]
          ELSE [parser |-> "none", payload |-> "none", payee |-> "none"])
    ELSE IF tag = HDFC_CSV_EXPORT_FROM_WEB
    THEN [parser |-> "transform_hdfc_csv_to_transactions", payload |-> "text",
          payee |-> "extract_payee_from_hdfc_bank_statement_narration"]
    ELSE IF tag = ICICI_CREDIT_CARD_STATEMENT
    THEN [parser |-> "transform_icici_credit_card_statement_csv_to_transactions",
          payload |-> "text",
          payee |-> "extract_payee_from_icici_credit_card_narration"]
    ELSE IF tag = HDFC_CREDIT_CARD_STATEMENT_PDF
    THEN [parser |-> "transform_hdfc_credit_card_statement_to_transactions",
          payload |-> "bytes",
          payee |-> "extract_payee_from_hdfc_credit_card_narration"]
    ELSE [parser |-> "none", payload |-> "none", payee |-> "none"]

C25_DispatcherInvokesTheTagsParser ==
    (app \in Apps /\ pc # "main") =>
        LET d == Dispatch(app, data_source)
        IN  IF d.parser = "none"
            THEN /\ pc = "raised"
                 /\ exc = "ValueError"
                 /\ error = <<"Unsupported data source: ", data_source>>
                 /\ invoked = <<>>
                 /\ ~received
            ELSE /\ invoked = <<[parser |-> d.parser, payload |-> d.payload]>>
                 /\ payee_extractor = d.payee
                 /\ pc = "done" =>
                        /\ Len(df) = Len(transactions)
                        /\ \A i \in 1..Len(df) :
                               df[i].Payee =
                                   ApplyPayeeExtractor(
                                       d.payee, Str(transactions[i].narration))

\* a format-C document went to the format-C parser as bytes and its rows are
\* shown
C25_Witness ==
    /\ app = "bank_statement_transformer"
    /\ data_source = HDFC_CREDIT_CARD_STATEMENT_PDF
    /\ pc = "done"
    /\ invoked[1].payload = "bytes"
    /\ Len(df) = 2

\* an unknown tag was refused
C25_UnknownTagRefused ==
    /\ app = "bank_statement_transformer"
    /\ data_source = OtherTag
    /\ pc = "raised"
    /\ invoked = <<>>

(***************************************************************************)
(* C26.  No partial result on fatal error: when the dispatch or the parser *)
(* call has raised, main holds no transaction list, shows no row, has made *)
(* no reconcile call and no commit, and the ledger holds nothing of the    *)
(* statement.                                                              *)
(***************************************************************************)
\* an exception of the dispatch or of the parser has left main
ParseFailed == app \in Apps /\ pc = "raised" /\ exc # "ActualError"

C26_NoPartialResult ==
    ParseFailed =>
        /\ ~received
        /\ transactions = <<>>
        /\ df = <<>>
        /\ submitted = <<>>
        /\ commits = 0
        /\ session = {}
        /\ ledger = {}

\* actual_budget_importer: the parser raised on the second data row, after a
\* row that parses
C26_Witness ==
    /\ ParseFailed
    /\ app = "actual_budget_importer"
    /\ exc = "AssertionError"
    /\ Len(lines) = 3
    /\ lines[2] = SampleRow
    /\ lines[3] = ShortRefRow

\* bank_statement_transformer: the extraction of a format-C document failed
C26_ExtractionFailed ==
    /\ ParseFailed
    /\ app = "bank_statement_transformer"
    /\ exc = "PdfReadError"

(***************************************************************************)
(* C27.  Idempotent re-import: after every import of a statement of        *)
(* distinct rows through actual_budget_importer, the reconcile calls made  *)
(* are those of the first import (same imported_id, amount, date and payee *)
(* for each row), the ledger holds exactly the entries one import leaves,  *)
(* and these are one entry per transaction of the statement.               *)
(***************************************************************************)
\* the ledger after the calls, made in order
RECURSIVE ReconcileAll(_, _)
ReconcileAll(s, calls) ==
    IF calls = <<>> THEN s
    ELSE ReconcileAll(Reconcile(s, Head(calls)), Tail(calls))

\* the reconcile calls one import of the statement makes
CallsOf(file_contents) ==
    LET ts == transform_hdfc_csv_to_transactions("abi", file_contents).transactions
    IN  [i \in 1..Len(ts) |-> ReconcileCall(ts[i])]

\* no line of the statement occurs twice
DistinctLines == \A i, j \in 1..Len(lines) : lines[i] = lines[j] => i = j

Imported == app = "actual_budget_importer" /\ pc = "imported"

\* the part of C27 about repetition: every import repeats the calls of the
\* first, and the ledger after it is the ledger after one import
C27_ReimportChangesNothing ==
    Imported =>
        /\ submitted = CallsOf(lines)
        /\ ledger = ReconcileAll({}, CallsOf(lines))

C27_IdempotentReimport ==
    (Imported /\ DistinctLines) =>
        /\ submitted = CallsOf(lines)
        /\ ledger = ReconcileAll({}, CallsOf(lines))
        /\ Cardinality(ledger) = Len(transactions)
        /\ \A i \in 1..Len(transactions) :
               ReconcileCall(transactions[i]) \in ledger

\* the statement was imported MaxImports times
C27_ImportedAgain ==
    /\ Imported
    /\ imports = MaxImports
    /\ Cardinality(ledger) = 2

(***************************************************************************)
(* C30.  Import commit ordering in actual_budget_importer: the reconcile   *)
(* calls of an import are, in list order, one per parsed transaction with  *)
(* imported_id the transaction's ref_id; commit is called at most once,    *)
(* and only when every transaction has had its call return; an import in   *)
(* which a reconcile call raised has no commit.                            *)
(***************************************************************************)
C30_CommitAfterEveryReconcile ==
    app = "actual_budget_importer" =>
        /\ Len(submitted) <= Len(transactions)
        /\ \A i \in 1..Len(submitted) :
               /\ submitted[i].imported_id = transactions[i].ref_id
               /\ submitted[i].notes = transactions[i].narration
               /\ submitted[i].amount = transactions[i].amount
               /\ submitted[i].date = transactions[i].date
        /\ commits \in {0, 1}
        /\ commits = 1 <=> pc = "imported"
        /\ commits = 1 => Len(submitted) = Len(transactions)
        /\ exc = "ActualError" => commits = 0 /\ pc = "raised"

\* two transactions were reconciled in order and committed
C30_Witness ==
    /\ Imported
    /\ commits = 1
    /\ Len(submitted) = 2
    /\ submitted[1].imported_id # submitted[2].imported_id

\* the second reconcile call of an import raised
C30_SecondCallRaised ==
    /\ app = "actual_budget_importer"
    /\ exc = "ActualError"
    /\ Len(submitted) = 2
    /\ commits = 0

=============================================================================
